---- MODULE Spec2Model ----
(***************************************************************************)
(* A model of the HCP masking pipeline.                                    *)
(*                                                                         *)
(* Spec      : HcpMaskingPipeline.run_pipeline of                          *)
(*             src/pipeline/hcp_masking_pipeline.py, one step per call it  *)
(*             makes, over an abstract local file tree and remote store.   *)
(* SpecMerge : the run-log pull / merge / upload of                        *)
(*             src/hcp/hcp_masking_pipeline.py (_get_logs_from_s3 and      *)
(*             _copy_logs_to_s3), over log texts kept character by         *)
(*             character.                                                  *)
(***************************************************************************)
EXTENDS Integers, Sequences, FiniteSets, TLC

\* ------------------------------------------------------------------ bounds
\* longest backlog drawn in Init
MaxLen == 3
\* largest batch size drawn in Init
MaxBatch == 3
\* the batch sizes drawn in Init go down to -MaxNeg
MaxNeg == 1
\* longest log text (in characters) drawn in InitMerge
MaxText == 3
\* how often a machine logs a line and reconciles the log
MaxRuns == 2
\* most files a scan of the group directory finds
MaxPaths == 2
\* most lines of a case list file
MaxLines == 3
\* largest start_index and end_index drawn
MaxIdx == 3
\* longest backlog drawn in InitLocations
MaxShort == 2
\* longest token of a case list drawn in InitNormalize (in symbols)
MaxTok == 3
\* longest appendage drawn in InitNormalize beside the usual one (in symbols)
MaxApp == 2
\* largest -nproc drawn in InitSteps
MaxCr == 4
\* most cores of the machine drawn in InitSteps
MaxCores == 3

\* ------------------------------------------------------- values of the model
Subjects == {"s1", "s2"}

\* cpu_count() of the machine the run is on
cpu_count == 2

\* the files the pull stages for a subject (--include "*<file_substring>*" of the
\* remote Diffusion directory) and the two the transform adds
Inputs == {"bval", "bvec", "nii"}
Outputs == {"mask", "bse"}
\* self.allowed_files
allowed_files == Inputs \cup Outputs
\* what a successful transform leaves beside them: its scratch file
\* process_id.txt and one more file of the subject
Scratch == "process_id.txt"
Extras == {Scratch, "aux"}
AllFiles == allowed_files \cup Extras

BatchSizes == (0 - MaxNeg)..MaxBatch

SeqsUpTo(S, n) == UNION {[1..k -> S] : k \in 0..n}

Min(a, b) == IF a < b THEN a ELSE b
Max(a, b) == IF a > b THEN a ELSE b

SetMin(S) == CHOOSE x \in S : \A y \in S : x <= y

Range(s) == {s[i] : i \in 1..Len(s)}

\* ---------------------------------------------------------- Python slicing
\* the index a slice bound b denotes in a list of length n: negative bounds
\* count from the end, and every bound is clipped to 0..n
PyBound(b, n) == IF b < 0 THEN Max(n + b, 0) ELSE Min(b, n)

\* lst[:b]
PyTake(lst, b) == SubSeq(lst, 1, PyBound(b, Len(lst)))

\* lst[b:] with the bound off by one: the first subject after the batch is lost
PyDrop_OffByOne(lst, b) == SubSeq(lst, PyBound(b, Len(lst)) + 2, Len(lst))

\* lst[b:]
PyDrop(lst, b) == SubSeq(lst, PyBound(b, Len(lst)) + 1, Len(lst))

VARIABLES
    \* ---- HcpMaskingPipeline fields and run_pipeline locals
    subjects_to_process,  \* self.subjects_to_process: the backlog
    batch_size,           \* self.batch_size (run_pipeline lowers it)
    multiprocessing,      \* truth value of self.multiprocessing
    dry_run,              \* truth value of self.dry_run
    batch,                \* run_pipeline's local subjects_to_process: the batch
    pc,                   \* where run_pipeline is
    todo,                 \* positions of the batch the current loop / pool has not done
    manifest,             \* the subjects whose primary input is listed in input_text
    error,                \* the exception that ended the run, "" when none
    \* ---- the local file tree under hcp_data_root
    local,                \* [subject -> files of <root>/<group>/<subject>/<output_file_name>]
    processed,            \* [subject -> files of <root>/processed/<group>/<subject>/<output_file_name>]
    processed_exists,     \* <root>/processed/<group> exists
    additional,           \* files in additional_files_loc, as <<subject, file>>
    log_file,             \* the lines of the file at log_loc
    log_detached,         \* the logging handler writes to a file that was unlinked
    \* ---- the environment
    log_under_root,       \* log_loc lies in a folder under hcp_data_root
    additional_under_root, \* additional_files_loc lies in a folder under hcp_data_root
    ls_local,             \* what `aws s3 ls <local path>` answers (does_exist on a local path)
    remote_out,           \* [subject -> files at <s3 root>/<group>/<subject>/<output_file_name>]
    remote_additional,    \* files at <s3 root>/<group>/AdditionalFiles
    remote_log,           \* the lines of <s3 root>/<group>/logs
    \* ---- history (read by the properties only)
    initial_backlog,      \* the backlog at construction
    cfg_batch_size,       \* the batch size at construction
    batches,              \* the batches popped so far, in pop order
    stages,               \* the stages the current batch has entered, in order
    recorded,             \* the outcomes _log wrote for the current batch, in order
    outcomes,             \* every outcome _log wrote in the run, in order
    transform_calls,      \* how often the external transform was invoked
    transform_exit,       \* exit status of the current batch's transform, -1 before it ran
    unstaged,             \* subjects of the current batch whose pull staged nothing
    staged,               \* subjects of the current batch whose pull copied the inputs
    transfer_failed,      \* subjects of the current batch whose pull or push exited non-zero
    applied,              \* [fan-out -> [position of the batch -> how often its operation ran]]
    \* ---- the log merge of src/hcp
    hcp_pc,               \* where _copy_logs_to_s3 is
    hcp_local,            \* text of the file at log_loc
    hcp_temp,             \* text of the file at temp_log_loc
    hcp_remote,           \* <<text>> of the remote log, << >> when there is none
    hcp_log,              \* the local variable log
    hcp_same_temp,        \* temp_log_loc and log_loc name the same file
    hcp_local0,           \* history: the local log before the merge
    hcp_pulled,           \* history: <<text>> of the remote log as pulled, << >> when none
    \* ---- the merge of two log texts, as a function
    fn_pc,                \* which merges have been computed
    fn_a,                 \* the text A
    fn_b,                 \* the text B
    fn_ab,                \* merge(A, B)
    fn_ba,                \* merge(B, A)
    fn_aab,               \* merge(A, merge(A, B))
    \* ---- runs of src/hcp that share the remote log of one group
    race_writers,         \* the machines that run the orchestrator on the group
    race_pc,              \* [writer -> where its run is]
    race_local,           \* [writer -> text of its file at log_loc]
    race_temp,            \* [writer -> text of its file at temp_log_loc]
    race_log,             \* [writer -> its local variable log]
    race_remote,          \* <<text>> of the remote log, << >> when there is none
    race_runs,            \* [writer -> how many lines it has logged]
    race_same_temp,       \* temp_log_loc and log_loc name the same file
    race_pushed,          \* history: every line that was uploaded
    \* ---- _create_input_text followed by _run_cnn_masking, on texts
    mf_pc,                \* where the two calls are
    mf_variant,           \* whose manifest writer runs: "pipeline" or "hcp"
    mf_process_list,      \* what _create_process_list returned
    input_text,           \* text of the file at self.input_text
    input_list,           \* the lines read back
    mf_rewritten,         \* history: the file was rewritten between the write and the read
    mf_transformed,       \* the external transform was invoked
    \* ---- HcpMaskingPipeline.__init__: the case list and the backlog
    ctor_pc,              \* where __init__ is
    caselist_file,        \* the lines of the case list file
    start_index,          \* self.start_index
    end_index,            \* <<self.end_index>>, << >> for None
    caselist,             \* self.caselist
    subjects,             \* self.subjects (self.subjects_to_process is the same list)
    remote_root,          \* [subject -> what a listing of its remote root comes to]
    ls_bare,              \* how `aws s3 ls` reads a path that has no s3:// scheme
    \* ---- __main__ and the fields __init__ sets
    main_pc,              \* where __main__ is
    argv,                 \* the command line: the options given, with their arguments
    config,               \* the section of the configuration file: option -> string
    args,                 \* the namespace parse_args returned
    fields,               \* the attributes of the HcpMaskingPipeline object
    \* ---- _verify_subject_data_in_s3 of one subject
    verify_pc,            \* where the call is
    verify_remote,        \* the files that exist at the subject's remote output location
    verify_failing,       \* the files whose `aws s3 ls` fails
    verify_queried,       \* the files does_exist was called for, in order
    verify_result,        \* <<what the call returned>>, << >> before it returns
    \* ---- the suffix normalization of _get_subjects, of one token
    norm_pc,              \* how often the token was normalized
    norm_variant,         \* whose _get_subjects normalizes: "pipeline" or "hcp"
    norm_appendage,       \* self.appendage
    norm_token,           \* the token of the case list
    norm_once,            \* the token normalized
    norm_twice,           \* the normalized token normalized
    \* ---- run_pipeline.py
    steps_pc,             \* where the script is
    cores,                \* os.cpu_count()
    cr,                   \* args.cr
    calls,                \* the subprocess.run calls made, in order: script, -nproc, exit
    \* one call of _cleanup_additional_files, file by file
    cl_pc,                \* where the call is
    cl_processed,         \* [subject directory -> names of the files in its output directory]
    cl_additional,        \* names of the files in additional_files_loc
    cl_unvisited,         \* subject directories the outer iterdir() has yet to yield
    cl_dir,               \* the subject directory being walked, << >> or <<s>>
    cl_left,              \* files of that directory the inner iterdir() has yet to yield
    cl_before,            \* cl_processed when the call began
    cl_deleted,           \* <<subject, name>> of the files unlinked
    cl_moved,             \* <<subject, name>> of the files moved
    \* the names of the files of one subject, as the three places build them
    nm_pc,                \* where the comparison is
    nm_subject_name,      \* subject.split(appendage)[0], a sequence of symbols
    nm_file_substring,    \* self.file_substring, a sequence of symbols
    nm_ending,            \* which of the five files, by its ending
    nm_uri,               \* str(file.as_uri()) of the file in the processed directory
    nm_kept,              \* << >>, or <<b>>: cleanup leaves the file in place
    nm_included           \* << >>, or <<b>>: the include filter of the push matches it

runVars == <<subjects_to_process, batch_size, multiprocessing, dry_run, batch, pc,
             todo, manifest, error>>
fsVars == <<local, processed, processed_exists, additional, log_file, log_detached>>
envVars == <<log_under_root, additional_under_root, ls_local, remote_out,
             remote_additional, remote_log>>
histVars == <<initial_backlog, cfg_batch_size, batches, stages, recorded, outcomes,
              transform_calls, transform_exit, unstaged, staged, transfer_failed,
                   applied>>
hcpVars == <<hcp_pc, hcp_local, hcp_temp, hcp_remote, hcp_log, hcp_same_temp,
             hcp_local0, hcp_pulled>>
runVars_but_todo == <<subjects_to_process, batch_size, multiprocessing, dry_run, batch, pc,
                     manifest, error>>
fnVars == <<fn_pc, fn_a, fn_b, fn_ab, fn_ba, fn_aab>>
raceVars == <<race_writers, race_pc, race_local, race_temp, race_log, race_remote,
              race_runs, race_same_temp, race_pushed>>
mfVars == <<mf_pc, mf_variant, mf_process_list, input_text, input_list, mf_rewritten,
            mf_transformed>>
ctorVars == <<ctor_pc, caselist_file, start_index, end_index, caselist, subjects,
              remote_root, ls_bare>>
mainVars == <<main_pc, argv, config, args, fields>>
verifyVars == <<verify_pc, verify_remote, verify_failing, verify_queried, verify_result>>
normVars == <<norm_pc, norm_variant, norm_appendage, norm_token, norm_once, norm_twice>>
stepsVars == <<steps_pc, cores, cr, calls>>
cleanupVars == <<cl_pc, cl_processed, cl_additional, cl_unvisited, cl_dir, cl_left,
                 cl_before, cl_deleted, cl_moved>>
nameVars == <<nm_pc, nm_subject_name, nm_file_substring, nm_ending, nm_uri, nm_kept,
              nm_included>>
\* everything that is no part of a run of src/pipeline
outsideRun == <<hcpVars, fnVars, raceVars, mfVars, ctorVars, mainVars, verifyVars,
                normVars,
                stepsVars, cleanupVars, nameVars>>
vars == <<runVars, fsVars, envVars, histVars, outsideRun>>

NoFiles == [s \in Subjects |-> {}]

\* the two fan-outs of a batch, and the counts before either has run
Fanouts == {"Staging", "Push"}
NotApplied(b) == [f \in Fanouts |-> [i \in 1..Len(b) |-> 0]]

Positions == 1..Len(batch)

\* the merge of src/hcp is not part of a run of src/pipeline
HcpIdle ==
    /\ hcp_pc = "off"
    /\ hcp_local = << >>
    /\ hcp_temp = << >>
    /\ hcp_remote = << >>
    /\ hcp_log = << >>
    /\ hcp_same_temp = FALSE
    /\ hcp_local0 = << >>
    /\ hcp_pulled = << >>

\* self.appendage, and the subject names that carry it
appendage == "_V1_MR"
NormalSubjects == {<<"a", appendage>>, <<"b", appendage>>}

\* the machines that may run the orchestrator on one group
Writers == {"w1", "w2"}

\* no merge is computed as a function
FnIdle ==
    /\ fn_pc = "off"
    /\ fn_a = << >>
    /\ fn_b = << >>
    /\ fn_ab = << >>
    /\ fn_ba = << >>
    /\ fn_aab = << >>

\* no run of src/hcp is on the group
RaceIdle ==
    /\ race_writers = {}
    /\ race_pc = [w \in Writers |-> "off"]
    /\ race_local = [w \in Writers |-> << >>]
    /\ race_temp = [w \in Writers |-> << >>]
    /\ race_log = [w \in Writers |-> << >>]
    /\ race_remote = << >>
    /\ race_runs = [w \in Writers |-> 0]
    /\ race_same_temp = FALSE
    /\ race_pushed = {}

\* no manifest is written on its own
MfIdle ==
    /\ mf_pc = "off"
    /\ mf_variant = "pipeline"
    /\ mf_process_list = << >>
    /\ input_text = << >>
    /\ input_list = << >>
    /\ mf_rewritten = FALSE
    /\ mf_transformed = FALSE

\* __init__ is over
CtorIdle ==
    /\ ctor_pc = "off"
    /\ caselist_file = << >>
    /\ start_index = 1
    /\ end_index = << >>
    /\ caselist = << >>
    /\ subjects = << >>
    /\ remote_root = [s \in NormalSubjects |-> "absent"]
    /\ ls_bare = "key"

\* __main__ is not followed
MainIdle ==
    /\ main_pc = "off"
    /\ argv = << >>
    /\ config = << >>
    /\ args = << >>
    /\ fields = << >>

\* no call of _verify_subject_data_in_s3 is followed
VerifyIdle ==
    /\ verify_pc = "off"
    /\ verify_remote = {}
    /\ verify_failing = {}
    /\ verify_queried = << >>
    /\ verify_result = << >>

\* _cleanup_additional_files is not followed file by file
CleanupIdle ==
    /\ cl_pc = "off"
    /\ cl_processed = << >>
    /\ cl_additional = {}
    /\ cl_unvisited = {}
    /\ cl_dir = << >>
    /\ cl_left = {}
    /\ cl_before = << >>
    /\ cl_deleted = {}
    /\ cl_moved = {}

\* no file name is compared
NamesIdle ==
    /\ nm_pc = "off"
    /\ nm_subject_name = << >>
    /\ nm_file_substring = << >>
    /\ nm_ending = << >>
    /\ nm_uri = << >>
    /\ nm_kept = << >>
    /\ nm_included = << >>

\* run_pipeline.py is not run
StepsIdle ==
    /\ steps_pc = "off"
    /\ cores = 1
    /\ cr = 1
    /\ calls = << >>

\* no token is normalized on its own
NormIdle ==
    /\ norm_pc = "off"
    /\ norm_variant = "pipeline"
    /\ norm_appendage = << >>
    /\ norm_token = << >>
    /\ norm_once = << >>
    /\ norm_twice = << >>

\* what an earlier run that was aborted after its staging may have left under
\* <hcp_data_root>/<group_name>: nothing, or the staged inputs of one subject
\* (the subjects' names are interchangeable, so one of them stands for either)
Leftovers == {{}, {"s2"}}

\* The state after HcpMaskingPipeline.__init__: the backlog is what _get_subjects
\* returned, the batch size is whatever integer the configuration or -b gave.
\* __init__ does not touch the local working root or the remote store.
Constructed ==
    /\ subjects_to_process \in SeqsUpTo(Subjects, MaxLen)
    /\ batch_size \in BatchSizes
    /\ multiprocessing \in BOOLEAN
    /\ dry_run \in BOOLEAN
    /\ batch = << >>
    /\ pc = "Idle"
    /\ todo = {}
    /\ manifest = {}
    /\ error = ""
    /\ \E leftover \in Leftovers :
          local = [s \in Subjects |-> IF s \in leftover THEN Inputs ELSE {}]
    /\ processed = NoFiles
    /\ processed_exists = FALSE
    /\ additional = {}
    /\ log_file = << >>
    /\ log_detached = FALSE
    /\ log_under_root \in BOOLEAN
    /\ ls_local \in BOOLEAN
    /\ \E stale \in SUBSET Subjects :
          remote_out = [s \in Subjects |-> IF s \in stale THEN allowed_files ELSE {}]
    /\ remote_additional = {}
    /\ remote_log = << >>
    /\ initial_backlog = subjects_to_process
    /\ cfg_batch_size = batch_size
    /\ batches = << >>
    /\ stages = << >>
    /\ recorded = << >>
    /\ outcomes = << >>
    /\ transform_calls = 0
    /\ transform_exit = -1
    /\ unstaged = {}
    /\ staged = {}
    /\ transfer_failed = {}
    /\ applied = NotApplied(<< >>)
    /\ HcpIdle
    /\ FnIdle
    /\ RaceIdle
    /\ MfIdle
    /\ CtorIdle
    /\ MainIdle
    /\ VerifyIdle
    /\ NormIdle
    /\ StepsIdle
    /\ CleanupIdle
    /\ NamesIdle

\* a run whose additional_files_loc is a directory outside hcp_data_root
Init ==
    /\ Constructed
    /\ additional_under_root = FALSE

\* an uncaught exception ends the run
Raise(e) ==
    /\ pc' = "Aborted"
    /\ error' = e
    /\ stages' = Append(stages, "Aborted")

Enter(stage) ==
    /\ pc' = stage
    /\ error' = error
    /\ stages' = Append(stages, stage)

\* while len(self.subjects_to_process) > 0: ... (the loop is left)
LoopExit ==
    /\ pc = "Idle"
    /\ Len(subjects_to_process) = 0
    /\ pc' = "Done"
    /\ UNCHANGED <<subjects_to_process, batch_size, multiprocessing, dry_run, batch,
                   todo, manifest, error>>
    /\ UNCHANGED <<fsVars, envVars, histVars, outsideRun>>

\* the batch size the pop uses
PopSize == IF Len(subjects_to_process) < batch_size
           THEN Len(subjects_to_process)
           ELSE batch_size

\* the head of the loop body: lower the batch size, slice the batch off the backlog
Pop ==
    /\ pc = "Idle"
    /\ Len(subjects_to_process) > 0
    /\ batch_size' = PopSize
    /\ batch' = PyTake(subjects_to_process, PopSize)
    /\ subjects_to_process' = PyDrop(subjects_to_process, PopSize)
    /\ batches' = Append(batches, batch')
    /\ pc' = "Popped"
    /\ stages' = << >>
    /\ recorded' = << >>
    /\ transform_exit' = -1
    /\ unstaged' = {}
    /\ staged' = {}
    /\ transfer_failed' = {}
    /\ applied' = NotApplied(batch')
    /\ manifest' = {}
    /\ UNCHANGED <<multiprocessing, dry_run, todo, error>>
    /\ UNCHANGED <<fsVars, envVars, outsideRun>>
    /\ UNCHANGED <<initial_backlog, cfg_batch_size, outcomes, transform_calls>>

\* Pool(n) raises ValueError("Number of processes must be at least 1") for n < 1
PoolOpens == Min(cpu_count, batch_size) >= 1

\* if self.multiprocessing: with Pool(min(cpu_count(), self.batch_size)) ... else: for ...
StartStaging ==
    /\ pc = "Popped"
    /\ IF multiprocessing /\ ~PoolOpens
       THEN Raise("ValueError: Pool") /\ todo' = todo
       ELSE Enter("Staging") /\ todo' = Positions
    /\ UNCHANGED <<subjects_to_process, batch_size, multiprocessing, dry_run, batch,
                   manifest>>
    /\ UNCHANGED <<fsVars, envVars, outsideRun>>
    /\ UNCHANGED <<initial_backlog, cfg_batch_size, batches, recorded, outcomes,
                   transform_calls, transform_exit, unstaged, staged,
                   transfer_failed, applied>>

\* the destination a worker of a fan-out writes for a subject: save_path under
\* the local data root when staging, s3_path under the output bucket when pushing;
\* both are built from the subject's name alone
Destination(f, s) == <<IF f = "Staging" THEN "save_path" ELSE "s3_path", s>>

\* the positions of the batch that workers of the pool can hold at the same time:
\* any two not yet finished, when the pool has two workers or more
Concurrent(i, j) ==
    /\ multiprocessing
    /\ pc \in Fanouts
    /\ Min(cpu_count, batch_size) >= 2
    /\ i \in todo
    /\ j \in todo
    /\ i # j

\* the position a fan-out takes next: any one left when a pool runs it, the first
\* one left when the for loop does
Takes(i) == i \in todo /\ (multiprocessing \/ i = SetMin(todo))

\* _move_subject_data_from_s3 / move_subject_data_from_s3 for batch[i]. The answer
\* of does_exist and the exit of `aws s3 cp` are the environment's: does_exist is
\* False and no copy is issued ("absent"), or the copy is issued and exits 0
\* ("copied"), or it is issued and exits non-zero having staged nothing
\* ("failed"); none of them raises. With --dryrun the copy stages nothing.
StageSubject(i) ==
    /\ pc = "Staging"
    /\ Takes(i)
    /\ \E result \in {"absent", "copied", "failed"} :
          /\ IF result = "copied" /\ ~dry_run
             THEN /\ local' = [local EXCEPT ![batch[i]] = @ \cup Inputs]
                  /\ staged' = staged \cup {batch[i]}
                  /\ unstaged' = unstaged
             ELSE /\ local' = local
                  /\ staged' = staged
                  /\ unstaged' = IF local[batch[i]] = {}
                                 THEN unstaged \cup {batch[i]}
                                 ELSE unstaged
          /\ transfer_failed' = IF result = "failed"
                                THEN transfer_failed \cup {batch[i]}
                                ELSE transfer_failed
    /\ applied' = [applied EXCEPT !["Staging"][i] = @ + 1]
    /\ todo' = todo \ {i}
    /\ UNCHANGED <<subjects_to_process, batch_size, multiprocessing, dry_run, batch, pc,
                   manifest, error>>
    /\ UNCHANGED <<processed, processed_exists, additional, log_file, log_detached>>
    /\ UNCHANGED <<envVars, outsideRun>>
    /\ UNCHANGED <<initial_backlog, cfg_batch_size, batches, stages, recorded, outcomes,
                   transform_calls, transform_exit>>

\* the stage after the staging fan-out entered without waiting for its workers
StagingDone_NoJoin ==
    /\ pc = "Staging"
    /\ Enter("Manifest")
    /\ UNCHANGED <<subjects_to_process, batch_size, multiprocessing, dry_run, batch,
                   todo, manifest>>
    /\ UNCHANGED <<fsVars, envVars, outsideRun>>
    /\ UNCHANGED <<initial_backlog, cfg_batch_size, batches, recorded, outcomes,
                   transform_calls, transform_exit, unstaged, staged,
                   transfer_failed, applied>>

\* the pool has joined / the for loop has ended
StagingDone ==
    /\ pc = "Staging"
    /\ todo = {}
    /\ Enter("Manifest")
    /\ UNCHANGED <<subjects_to_process, batch_size, multiprocessing, dry_run, batch,
                   todo, manifest>>
    /\ UNCHANGED <<fsVars, envVars, outsideRun>>
    /\ UNCHANGED <<initial_backlog, cfg_batch_size, batches, recorded, outcomes,
                   transform_calls, transform_exit, unstaged, staged,
                   transfer_failed, applied>>

\* <hcp_data_root>/<group_name> exists: `aws s3 cp` makes it with the first file
GroupDirExists == \E s \in Subjects : local[s] # {}

\* _create_process_list: every *<file_substring>.nii.gz under the group directory
process_list == {s \in Subjects : "nii" \in local[s]}

\* _create_input_text: root_dir.iterdir() raises when the directory is missing;
\* otherwise the list is written one path per line and read back. What is read
\* back is what was written (SpecManifest has the texts), so the ValueError of
\* the comparison is not raised here.
CreateInputText ==
    /\ pc = "Manifest"
    /\ IF ~GroupDirExists
       THEN Raise("FileNotFoundError: iterdir") /\ manifest' = manifest
       ELSE Enter("Transform") /\ manifest' = process_list
    /\ UNCHANGED <<subjects_to_process, batch_size, multiprocessing, dry_run, batch, todo>>
    /\ UNCHANGED <<fsVars, envVars, outsideRun>>
    /\ UNCHANGED <<initial_backlog, cfg_batch_size, batches, recorded, outcomes,
                   transform_calls, transform_exit, unstaged, staged,
                   transfer_failed, applied>>

\* _run_cnn_masking: subprocess.call of the masking script; its exit status is
\* dropped. A run that exits 0 has written the outputs of every listed subject.
RunCnnMasking ==
    /\ pc = "Transform"
    /\ \E exit \in {0, 1} :
          /\ transform_exit' = exit
          /\ local' = [s \in Subjects |->
                          IF exit = 0 /\ s \in manifest
                          THEN local[s] \cup Outputs \cup Extras
                          ELSE local[s]]
    /\ transform_calls' = transform_calls + 1
    /\ Enter("ToProcessed")
    /\ todo' = Positions
    /\ UNCHANGED <<subjects_to_process, batch_size, multiprocessing, dry_run, batch,
                   manifest>>
    /\ UNCHANGED <<processed, processed_exists, additional, log_file, log_detached>>
    /\ UNCHANGED <<envVars, outsideRun>>
    /\ UNCHANGED <<initial_backlog, cfg_batch_size, batches, recorded, outcomes, unstaged,
                   staged, transfer_failed,
                   applied>>

\* _move_subject_data_to_processed(batch[i]): the processed directory is made,
\* then shutil.move raises when the subject's directory is missing (nothing was
\* staged) or is already in the processed directory
MoveSubjectDataToProcessed(i) ==
    /\ pc = "ToProcessed"
    /\ i \in todo /\ i = SetMin(todo)
    /\ processed_exists' = TRUE
    /\ IF local[batch[i]] = {} \/ processed[batch[i]] # {}
       THEN /\ Raise("FileNotFoundError: shutil.move")
            /\ UNCHANGED <<local, processed, todo>>
       ELSE /\ processed' = [processed EXCEPT ![batch[i]] = local[batch[i]]]
            /\ local' = [local EXCEPT ![batch[i]] = {}]
            /\ todo' = todo \ {i}
            /\ UNCHANGED <<pc, error, stages>>
    /\ UNCHANGED <<subjects_to_process, batch_size, multiprocessing, dry_run, batch,
                   manifest>>
    /\ UNCHANGED <<additional, log_file, log_detached>>
    /\ UNCHANGED <<envVars, outsideRun>>
    /\ UNCHANGED <<initial_backlog, cfg_batch_size, batches, recorded, outcomes,
                   transform_calls, transform_exit, unstaged, staged,
                   transfer_failed, applied>>

\* the for loop over the batch has ended
ToProcessedDone ==
    /\ pc = "ToProcessed"
    /\ todo = {}
    /\ Enter("Cleanup")
    /\ UNCHANGED <<subjects_to_process, batch_size, multiprocessing, dry_run, batch,
                   todo, manifest>>
    /\ UNCHANGED <<fsVars, envVars, outsideRun>>
    /\ UNCHANGED <<initial_backlog, cfg_batch_size, batches, recorded, outcomes,
                   transform_calls, transform_exit, unstaged, staged,
                   transfer_failed, applied>>

\* file.name ends with one of self.allowed_files
Kept(f) == f \in allowed_files

\* _cleanup_additional_files: processed_dir.iterdir() raises when the directory
\* is missing; in every subject directory process_id.txt is unlinked, a kept file
\* stays, and any other file is moved to additional_files_loc, which is made
\* when it is missing
CleanupAdditionalFiles ==
    /\ pc = "Cleanup"
    /\ IF ~processed_exists
       THEN /\ Raise("FileNotFoundError: iterdir")
            /\ UNCHANGED <<processed, additional>>
       ELSE /\ processed' = [s \in Subjects |-> {f \in processed[s] : Kept(f)}]
            /\ additional' = additional \cup
                  {p \in Subjects \X AllFiles :
                      /\ p[2] \in processed[p[1]]
                      /\ ~Kept(p[2])
                      /\ p[2] # Scratch}
            /\ Enter("Push")
    /\ todo' = IF processed_exists THEN Positions ELSE todo
    /\ UNCHANGED <<subjects_to_process, batch_size, multiprocessing, dry_run, batch,
                   manifest>>
    /\ UNCHANGED <<local, processed_exists, log_file, log_detached>>
    /\ UNCHANGED <<envVars, outsideRun>>
    /\ UNCHANGED <<initial_backlog, cfg_batch_size, batches, recorded, outcomes,
                   transform_calls, transform_exit, unstaged, staged,
                   transfer_failed, applied>>

\* --include "*<file_substring>*": the names that carry the file substring
Included(f) == f # Scratch

\* the push of batch[i] with the dry-run marker left out of the command
MoveSubjectDataToS3_Live(i) ==
    /\ pc = "Push"
    /\ Takes(i)
    /\ \E moved \in BOOLEAN :
          /\ IF ls_local /\ moved
             THEN /\ remote_out' = [remote_out EXCEPT ![batch[i]] =
                                       @ \cup {f \in processed[batch[i]] : f # Scratch}]
                  /\ processed' = [processed EXCEPT ![batch[i]] =
                                       {f \in @ : f = Scratch}]
             ELSE UNCHANGED <<remote_out, processed>>
          /\ transfer_failed' = IF ls_local /\ ~moved
                                THEN transfer_failed \cup {batch[i]}
                                ELSE transfer_failed
    /\ applied' = [applied EXCEPT !["Push"][i] = @ + 1]
    /\ todo' = todo \ {i}
    /\ UNCHANGED runVars_but_todo
    /\ UNCHANGED <<local, processed_exists, additional, log_file, log_detached>>
    /\ UNCHANGED <<log_under_root, additional_under_root, ls_local, remote_additional,
                   remote_log>>
    /\ UNCHANGED <<initial_backlog, cfg_batch_size, batches, stages, recorded, outcomes,
                   transform_calls, transform_exit, unstaged, staged>>
    /\ UNCHANGED outsideRun

\* _move_subject_data_to_s3 / move_subject_data_to_s3 for batch[i]: when does_exist
\* answers True for the local path, `aws s3 mv` is issued (with --dryrun in a dry
\* run). A live move that exits 0 has moved the included files of the processed
\* directory to the remote output location; one that exits non-zero has moved
\* nothing. The exit status is dropped.
MoveSubjectDataToS3(i) ==
    /\ pc = "Push"
    /\ Takes(i)
    /\ \E moved \in BOOLEAN :
          /\ IF ls_local /\ ~dry_run /\ moved
             THEN /\ remote_out' = [remote_out EXCEPT ![batch[i]] =
                                       @ \cup {f \in processed[batch[i]] : Included(f)}]
                  /\ processed' = [processed EXCEPT ![batch[i]] =
                                       {f \in @ : ~Included(f)}]
             ELSE UNCHANGED <<remote_out, processed>>
          /\ transfer_failed' = IF ls_local /\ ~moved
                                THEN transfer_failed \cup {batch[i]}
                                ELSE transfer_failed
    /\ applied' = [applied EXCEPT !["Push"][i] = @ + 1]
    /\ todo' = todo \ {i}
    /\ UNCHANGED runVars_but_todo
    /\ UNCHANGED <<local, processed_exists, additional, log_file, log_detached>>
    /\ UNCHANGED <<log_under_root, additional_under_root, ls_local, remote_additional,
                   remote_log>>
    /\ UNCHANGED <<initial_backlog, cfg_batch_size, batches, stages, recorded, outcomes,
                   transform_calls, transform_exit, unstaged, staged>>
    /\ UNCHANGED outsideRun

\* the pool has joined / the for loop has ended
PushDone ==
    /\ pc = "Push"
    /\ todo = {}
    /\ Enter("PushAdditional")
    /\ UNCHANGED <<subjects_to_process, batch_size, multiprocessing, dry_run, batch,
                   todo, manifest>>
    /\ UNCHANGED <<fsVars, envVars, outsideRun>>
    /\ UNCHANGED <<initial_backlog, cfg_batch_size, batches, recorded, outcomes,
                   transform_calls, transform_exit, unstaged, staged,
                   transfer_failed, applied>>

\* _move_additional_files_to_s3: as the push of a subject, for additional_files_loc
MoveAdditionalFilesToS3 ==
    /\ pc = "PushAdditional"
    /\ \E moved \in BOOLEAN :
          IF ls_local /\ ~dry_run /\ moved
          THEN /\ remote_additional' = remote_additional \cup additional
               /\ additional' = {}
          ELSE UNCHANGED <<remote_additional, additional>>
    /\ Enter("Verify")
    /\ todo' = Positions
    /\ UNCHANGED <<subjects_to_process, batch_size, multiprocessing, dry_run, batch,
                   manifest>>
    /\ UNCHANGED <<local, processed, processed_exists, log_file, log_detached>>
    /\ UNCHANGED <<log_under_root, additional_under_root, ls_local, remote_out,
                   remote_log>>
    /\ UNCHANGED <<initial_backlog, cfg_batch_size, batches, recorded, outcomes,
                   transform_calls, transform_exit, unstaged, staged,
                   transfer_failed, applied>>
    /\ UNCHANGED outsideRun

\* _verify_subject_data_in_s3: True when each of the five files exists at the
\* remote output location
Verified(s) == \A f \in allowed_files : f \in remote_out[s]

\* the line _log writes for a subject
Outcome(s) == [message |-> IF Verified(s) THEN "Successfully processed"
                                          ELSE "Failed to process",
               subject |-> s]

\* the verification loop without its else branch: a subject that fails the
\* verification gets no outcome
VerifyAndLog_NoElse(i) ==
    /\ pc = "Verify"
    /\ i \in todo /\ i = SetMin(todo)
    /\ recorded' = IF Verified(batch[i]) THEN Append(recorded, Outcome(batch[i]))
                                         ELSE recorded
    /\ outcomes' = IF Verified(batch[i]) THEN Append(outcomes, Outcome(batch[i]))
                                         ELSE outcomes
    /\ log_file' = IF log_detached \/ ~Verified(batch[i])
                   THEN log_file
                   ELSE Append(log_file, Outcome(batch[i]))
    /\ todo' = todo \ {i}
    /\ UNCHANGED runVars_but_todo
    /\ UNCHANGED <<local, processed, processed_exists, additional, log_detached>>
    /\ UNCHANGED <<envVars, outsideRun>>
    /\ UNCHANGED <<initial_backlog, cfg_batch_size, batches, stages, transform_calls,
                   transform_exit, unstaged, staged,
                   transfer_failed, applied>>

\* one pass of the verification loop: verify batch[i], then _log the outcome.
\* logging.basicConfig opens the log file once; after the file was unlinked the
\* handler still writes to the unlinked file, not to the one _log touches anew.
VerifyAndLog(i) ==
    /\ pc = "Verify"
    /\ i \in todo /\ i = SetMin(todo)
    /\ recorded' = Append(recorded, Outcome(batch[i]))
    /\ outcomes' = Append(outcomes, Outcome(batch[i]))
    /\ log_file' = IF log_detached THEN log_file
                                   ELSE Append(log_file, Outcome(batch[i]))
    /\ todo' = todo \ {i}
    /\ UNCHANGED runVars_but_todo
    /\ UNCHANGED <<local, processed, processed_exists, additional, log_detached>>
    /\ UNCHANGED <<envVars, outsideRun>>
    /\ UNCHANGED <<initial_backlog, cfg_batch_size, batches, stages, transform_calls,
                   transform_exit, unstaged, staged,
                   transfer_failed, applied>>

\* the for loop over the batch has ended
VerifyDone ==
    /\ pc = "Verify"
    /\ todo = {}
    /\ Enter("Delete")
    /\ UNCHANGED <<subjects_to_process, batch_size, multiprocessing, dry_run, batch,
                   todo, manifest>>
    /\ UNCHANGED <<fsVars, envVars, outsideRun>>
    /\ UNCHANGED <<initial_backlog, cfg_batch_size, batches, recorded, outcomes,
                   transform_calls, transform_exit, unstaged, staged,
                   transfer_failed, applied>>

\* _delete_data removing the group directory only: the processed directory stays
DeleteData_KeepsProcessed ==
    /\ pc = "Delete"
    /\ local' = NoFiles
    /\ log_file' = IF log_under_root THEN << >> ELSE log_file
    /\ log_detached' = (log_detached \/ (log_under_root /\ outcomes # << >>))
    /\ pc' = "Idle"
    /\ UNCHANGED <<subjects_to_process, batch_size, multiprocessing, dry_run, batch,
                   todo, manifest, error>>
    /\ UNCHANGED <<processed, processed_exists, additional>>
    /\ UNCHANGED <<envVars, histVars, outsideRun>>

\* _delete_data: shutil.rmtree of every folder in hcp_data_root: the group
\* directory, the processed directory, and the folder of the log and the one of
\* the additional files when they are among them
DeleteData ==
    /\ pc = "Delete"
    /\ local' = NoFiles
    /\ processed' = NoFiles
    /\ processed_exists' = FALSE
    /\ log_file' = IF log_under_root THEN << >> ELSE log_file
    /\ log_detached' = (log_detached \/ (log_under_root /\ outcomes # << >>))
    /\ additional' = IF additional_under_root THEN {} ELSE additional
    /\ pc' = "Idle"
    /\ UNCHANGED <<subjects_to_process, batch_size, multiprocessing, dry_run, batch,
                   todo, manifest, error>>
    /\ UNCHANGED <<envVars, histVars, outsideRun>>

\* _copy_logs_to_s3 of src/pipeline: `aws s3 cp <log_loc> <s3 root>/<group>/logs`
\* when does_exist answers True for the local path. run_pipeline never calls it,
\* so it is no part of Next.
CopyLogsToS3 ==
    /\ remote_log' = IF ls_local /\ ~dry_run THEN log_file ELSE remote_log
    /\ UNCHANGED <<runVars, fsVars, histVars, outsideRun>>
    /\ UNCHANGED <<log_under_root, additional_under_root, ls_local, remote_out,
                   remote_additional>>

\* run_pipeline
Next ==
    \/ LoopExit
    \/ Pop
    \/ StartStaging
    \/ \E i \in Positions : StageSubject(i)
    \/ StagingDone
    \/ CreateInputText
    \/ RunCnnMasking
    \/ \E i \in Positions : MoveSubjectDataToProcessed(i)
    \/ ToProcessedDone
    \/ CleanupAdditionalFiles
    \/ \E i \in Positions : MoveSubjectDataToS3(i)
    \/ PushDone
    \/ MoveAdditionalFilesToS3
    \/ \E i \in Positions : VerifyAndLog(i)
    \/ VerifyDone
    \/ DeleteData

Spec == Init /\ [][Next]_vars

\* The runs on a fresh remote store with a batch size of at least 1 and a
\* backlog of at most MaxShort subjects, for either place of additional_files_loc:
\* outside hcp_data_root, or in a folder of it (the loop of
\* _cleanup_additional_files expects it in <hcp_data_root>/processed/<group_name>)
InitLocations ==
    /\ Constructed
    /\ Len(subjects_to_process) <= MaxShort
    /\ batch_size >= 1
    /\ remote_out = NoFiles
    /\ additional_under_root \in BOOLEAN

SpecLocations == InitLocations /\ [][Next]_vars

\* ------------------------------------------------- the log merge of src/hcp
\* A log text is a sequence of characters; NL is the newline.
NL == "\n"
Chars == {"x", "y", NL}
Texts == SeqsUpTo(Chars, MaxText)

\* text.split('\n')
RECURSIVE Split(_)
Split(text) ==
    IF \A i \in 1..Len(text) : text[i] # NL
    THEN <<text>>
    ELSE LET k == SetMin({i \in 1..Len(text) : text[i] = NL})
         IN  <<SubSeq(text, 1, k - 1)>> \o Split(SubSeq(text, k + 1, Len(text)))

\* '\n'.join(lines)
RECURSIVE Join(_)
Join(lines) ==
    IF Len(lines) = 0 THEN << >>
    ELSE IF Len(lines) = 1 THEN lines[1]
    ELSE lines[1] \o <<NL>> \o Join(Tail(lines))

\* the orders in which iterating a set may give its elements
Orders(S) == {f \in [1..Cardinality(S) -> S] :
                 \A i, j \in 1..Cardinality(S) : i # j => f[i] # f[j]}

\* the pipeline of src/pipeline is not part of the merge (its run logs apart)
PipelineIdle ==
    /\ subjects_to_process = << >>
    /\ batch_size = 0
    /\ multiprocessing = FALSE
    /\ batch = << >>
    /\ pc = "Off"
    /\ todo = {}
    /\ manifest = {}
    /\ error = ""
    /\ local = NoFiles
    /\ processed = NoFiles
    /\ processed_exists = FALSE
    /\ additional = {}
    /\ log_detached = FALSE
    /\ log_under_root = FALSE
    /\ additional_under_root = FALSE
    /\ ls_local = FALSE
    /\ remote_out = NoFiles
    /\ remote_additional = {}
    /\ initial_backlog = << >>
    /\ cfg_batch_size = 0
    /\ batches = << >>
    /\ stages = << >>
    /\ recorded = << >>
    /\ outcomes = << >>
    /\ transform_calls = 0
    /\ transform_exit = -1
    /\ unstaged = {}
    /\ staged = {}
    /\ transfer_failed = {}
    /\ applied = NotApplied(<< >>)

\* ... and its run logs are empty
PipelineOff ==
    /\ PipelineIdle
    /\ log_file = << >>
    /\ remote_log = << >>

pipelineVars == <<subjects_to_process, batch_size, multiprocessing, batch, pc, todo,
                  manifest, error, fsVars, envVars, histVars>>

\* everything that is no part of the merge
outsideMerge == <<pipelineVars, fnVars, raceVars, mfVars, ctorVars,
                  mainVars, verifyVars, normVars,
                stepsVars, cleanupVars, nameVars>>

\* _copy_logs_to_s3 is entered with a local log and a remote log of any content, or
\* no remote log
InitMerge ==
    /\ PipelineOff
    /\ FnIdle
    /\ RaceIdle
    /\ MfIdle
    /\ CtorIdle
    /\ MainIdle
    /\ VerifyIdle
    /\ NormIdle
    /\ StepsIdle
    /\ CleanupIdle
    /\ NamesIdle
    /\ dry_run \in BOOLEAN
    /\ hcp_pc = "get"
    /\ hcp_local \in Texts
    /\ hcp_temp = << >>
    /\ hcp_remote \in {<< >>} \cup {<<r>> : r \in Texts}
    /\ hcp_log = << >>
    /\ hcp_same_temp \in BOOLEAN
    /\ hcp_local0 = hcp_local
    /\ hcp_pulled = << >>

\* _get_logs_from_s3: when the remote log exists it is copied to temp_log_loc,
\* and log is then read from log_loc; otherwise log is ''
GetLogsFromS3 ==
    /\ hcp_pc = "get"
    /\ IF hcp_remote # << >>
       THEN /\ hcp_temp' = hcp_remote[1]
            /\ hcp_local' = IF hcp_same_temp THEN hcp_remote[1] ELSE hcp_local
            /\ hcp_log' = hcp_local'
       ELSE /\ UNCHANGED <<hcp_temp, hcp_local>>
            /\ hcp_log' = << >>
    /\ hcp_pulled' = hcp_remote
    /\ hcp_pc' = "merge"
    /\ UNCHANGED <<hcp_remote, hcp_same_temp, hcp_local0, dry_run, outsideMerge>>

\* _copy_logs_to_s3, lines 407-413: log (when not empty) is put before the text
\* of log_loc, split on newlines, deduplicated through a set, joined in the set's
\* order and written to log_loc
MergeLogs ==
    /\ hcp_pc = "merge"
    /\ LET text == IF hcp_log # << >> THEN hcp_log \o hcp_local ELSE hcp_local
       IN  \E order \in Orders(Range(Split(text))) :
              /\ hcp_log' = Join(order)
              /\ hcp_local' = Join(order)
              /\ hcp_temp' = IF hcp_same_temp THEN Join(order) ELSE hcp_temp
    /\ hcp_pc' = "upload"
    /\ UNCHANGED <<hcp_remote, hcp_same_temp, hcp_local0, hcp_pulled, dry_run,
                   outsideMerge>>

\* _copy_logs_to_s3, lines 414-420: `aws s3 cp <log_loc> <remote log>`, with
\* --dryrun when dry_run is set
UploadLog ==
    /\ hcp_pc = "upload"
    /\ hcp_remote' = IF dry_run THEN hcp_remote ELSE <<hcp_local>>
    /\ hcp_pc' = "done"
    /\ UNCHANGED <<hcp_local, hcp_temp, hcp_log, hcp_same_temp, hcp_local0, hcp_pulled,
                   dry_run, outsideMerge>>

NextMerge ==
    \/ GetLogsFromS3
    \/ MergeLogs
    \/ UploadLog

SpecMerge == InitMerge /\ [][NextMerge]_vars

\* --------------------------------------- the merge of two log texts, as such
\* _copy_logs_to_s3, lines 406-410: the text that is split, for the text log that
\* _get_logs_from_s3 returned and the text of log_loc
Concatenated(log, text) == IF log # << >> THEN log \o text ELSE text

\* line 412: the texts that '\n'.join(set(log.split('\n'))) may give, one for
\* each order in which the set hands out its lines
Merges(log, text) ==
    {Join(order) : order \in Orders(Range(Split(Concatenated(log, text))))}

\* everything that is no part of the merge as a function
outsideFn == <<pipelineVars, dry_run, hcpVars, raceVars, mfVars, ctorVars,
               mainVars, verifyVars, normVars,
                stepsVars, cleanupVars, nameVars>>

\* two log texts A and B of any content
InitFn ==
    /\ PipelineOff
    /\ dry_run = FALSE
    /\ HcpIdle
    /\ RaceIdle
    /\ MfIdle
    /\ CtorIdle
    /\ MainIdle
    /\ VerifyIdle
    /\ NormIdle
    /\ StepsIdle
    /\ CleanupIdle
    /\ NamesIdle
    /\ fn_pc = "start"
    /\ fn_a \in Texts
    /\ fn_b \in Texts
    /\ fn_ab = << >>
    /\ fn_ba = << >>
    /\ fn_aab = << >>

\* merge(A, B): A is the text pulled, B the text of log_loc
MergeAB ==
    /\ fn_pc = "start"
    /\ fn_ab' \in Merges(fn_a, fn_b)
    /\ fn_pc' = "ab"
    /\ UNCHANGED <<fn_a, fn_b, fn_ba, fn_aab, outsideFn>>

\* merge(B, A)
MergeBA ==
    /\ fn_pc = "ab"
    /\ fn_ba' \in Merges(fn_b, fn_a)
    /\ fn_pc' = "ba"
    /\ UNCHANGED <<fn_a, fn_b, fn_ab, fn_aab, outsideFn>>

\* merge(A, merge(A, B))
MergeAAB ==
    /\ fn_pc = "ba"
    /\ fn_aab' \in Merges(fn_a, fn_ab)
    /\ fn_pc' = "done"
    /\ UNCHANGED <<fn_a, fn_b, fn_ab, fn_ba, outsideFn>>

NextFn ==
    \/ MergeAB
    \/ MergeBA
    \/ MergeAAB

SpecMergeFn == InitFn /\ [][NextFn]_vars

\* -------------------------- machines that share the remote log of one group
\* Each machine in race_writers has its own log_loc and temp_log_loc and calls
\* _log and then _copy_logs_to_s3 of src/hcp, up to MaxRuns times; the steps of
\* different machines interleave freely.

\* the line a machine logs
Mark(w) == IF w = "w1" THEN "x" ELSE "y"

\* the lines of a text, the empty line apart
Lines(text) == Range(Split(text)) \ {<< >>}

\* everything that is no part of the shared log
outsideRace == <<pipelineVars, hcpVars, fnVars, mfVars, ctorVars,
                 mainVars, verifyVars, normVars,
                stepsVars, cleanupVars, nameVars>>

\* one machine or two, no log anywhere yet
InitRace ==
    /\ PipelineOff
    /\ dry_run \in BOOLEAN
    /\ HcpIdle
    /\ FnIdle
    /\ MfIdle
    /\ CtorIdle
    /\ MainIdle
    /\ VerifyIdle
    /\ NormIdle
    /\ StepsIdle
    /\ CleanupIdle
    /\ NamesIdle
    /\ race_writers \in {{"w1"}, Writers}
    /\ race_pc = [w \in Writers |-> IF w \in race_writers THEN "idle" ELSE "off"]
    /\ race_local = [w \in Writers |-> << >>]
    /\ race_temp = [w \in Writers |-> << >>]
    /\ race_log = [w \in Writers |-> << >>]
    /\ race_remote = << >>
    /\ race_runs = [w \in Writers |-> 0]
    /\ race_same_temp \in BOOLEAN
    /\ race_pushed = {}

\* _log: the logging handler appends the line and a newline to the file at log_loc
RaceLog(w) ==
    /\ race_pc[w] = "idle"
    /\ race_runs[w] < MaxRuns
    /\ race_local' = [race_local EXCEPT ![w] = @ \o <<Mark(w), NL>>]
    /\ race_runs' = [race_runs EXCEPT ![w] = @ + 1]
    /\ race_pc' = [race_pc EXCEPT ![w] = "get"]
    /\ UNCHANGED <<race_writers, race_temp, race_log, race_remote, race_same_temp,
                   race_pushed, dry_run, outsideRace>>

\* _get_logs_from_s3 on machine w
RaceGet(w) ==
    /\ race_pc[w] = "get"
    /\ IF race_remote # << >>
       THEN /\ race_temp' = [race_temp EXCEPT ![w] = race_remote[1]]
            /\ race_local' = [race_local EXCEPT
                                 ![w] = IF race_same_temp THEN race_remote[1] ELSE @]
            /\ race_log' = [race_log EXCEPT ![w] = race_local'[w]]
       ELSE /\ UNCHANGED <<race_temp, race_local>>
            /\ race_log' = [race_log EXCEPT ![w] = << >>]
    /\ race_pc' = [race_pc EXCEPT ![w] = "merge"]
    /\ UNCHANGED <<race_writers, race_remote, race_runs, race_same_temp, race_pushed,
                   dry_run, outsideRace>>

\* _copy_logs_to_s3, lines 406-413, on machine w
RaceMerge(w) ==
    /\ race_pc[w] = "merge"
    /\ \E merged \in Merges(race_log[w], race_local[w]) :
          /\ race_log' = [race_log EXCEPT ![w] = merged]
          /\ race_local' = [race_local EXCEPT ![w] = merged]
          /\ race_temp' = [race_temp EXCEPT ![w] = IF race_same_temp THEN merged ELSE @]
    /\ race_pc' = [race_pc EXCEPT ![w] = "upload"]
    /\ UNCHANGED <<race_writers, race_remote, race_runs, race_same_temp, race_pushed,
                   dry_run, outsideRace>>

\* _copy_logs_to_s3, lines 414-420, on machine w: the upload replaces the remote log
RaceUpload(w) ==
    /\ race_pc[w] = "upload"
    /\ race_remote' = IF dry_run THEN race_remote ELSE <<race_local[w]>>
    /\ race_pushed' = IF dry_run THEN race_pushed
                                 ELSE race_pushed \cup Lines(race_local[w])
    /\ race_pc' = [race_pc EXCEPT ![w] = "idle"]
    /\ UNCHANGED <<race_writers, race_local, race_temp, race_log, race_runs,
                   race_same_temp, dry_run, outsideRace>>

NextRace ==
    \E w \in Writers :
        \/ RaceLog(w)
        \/ RaceGet(w)
        \/ RaceMerge(w)
        \/ RaceUpload(w)

SpecRace == InitRace /\ [][NextRace]_vars

\* ------------------------------------------ the manifest, character by character
\* _create_input_text of src/pipeline followed by _run_cnn_masking (run_pipeline,
\* lines 584-585), and _processlist_to_input_text of src/hcp, over the text of
\* the file at self.input_text. Between the write and the read another run that
\* is configured with the same input_text may write its own manifest.

\* the paths a scan may find
Paths == {<<"p">>, <<"q">>, <<"p", "q">>}

Distinct(s) == \A i, j \in 1..Len(s) : i # j => s[i] # s[j]

\* what _create_process_list may return: rglob gives every file once
ProcessLists == {l \in SeqsUpTo(Paths, MaxPaths) : Distinct(l)}

\* a str and a PosixPath of the same characters are different values
Str(v) == [type |-> "str", value |-> v]
PosixPath(v) == [type |-> "PosixPath", value |-> v]

\* the text the loop of f.write calls leaves in the file: src/pipeline writes
\* subject.as_posix() + '\n', src/hcp writes subject.as_posix() alone
RECURSIVE Written(_, _)
Written(variant, plist) ==
    IF Len(plist) = 0 THEN << >>
    ELSE plist[1] \o (IF variant = "pipeline" THEN <<NL>> ELSE << >>)
                  \o Written(variant, Tail(plist))

\* for line in f: the lines of the file, each with its newline; what follows
\* the last newline is a line only when it is not empty
FileLines(text) ==
    LET parts == Split(text)
        n == Len(parts)
    IN  [i \in 1..(IF parts[n] = << >> THEN n - 1 ELSE n) |->
            IF i < n THEN parts[i] \o <<NL>> ELSE parts[i]]

\* line.rstrip()
RECURSIVE Rstrip(_)
Rstrip(line) ==
    IF Len(line) > 0 /\ line[Len(line)] \in {" ", NL}
    THEN Rstrip(SubSeq(line, 1, Len(line) - 1))
    ELSE line

\* [line.rstrip() for line in f]
ReadBack(text) == [i \in 1..Len(FileLines(text)) |-> Rstrip(FileLines(text)[i])]

Count(x, lst) == Cardinality({i \in 1..Len(lst) : lst[i] = x})

\* sorted(a) == sorted(b): the lists hold the same values, each as often
SortedEqual(a, b) ==
    /\ Len(a) = Len(b)
    /\ \A x \in Range(a) \cup Range(b) : Count(x, a) = Count(x, b)

\* the comparison that lets the manifest pass, with no comparison at all
Matches_Always(variant, lines, plist) == TRUE

\* sorted(input_list) == sorted(process_list): src/pipeline first turns the
\* process list into strings, src/hcp compares the strings with the paths
Matches(variant, lines, plist) ==
    SortedEqual([i \in 1..Len(lines) |-> Str(lines[i])],
                [i \in 1..Len(plist) |-> IF variant = "pipeline"
                                          THEN Str(plist[i])
                                          ELSE PosixPath(plist[i])])

\* everything that is no part of the manifest
outsideManifest == <<pipelineVars, dry_run, hcpVars, fnVars, raceVars, ctorVars,
                     mainVars, verifyVars, normVars,
                stepsVars, cleanupVars, nameVars>>

\* the scan has returned a list of paths
InitManifest ==
    /\ PipelineOff
    /\ dry_run = FALSE
    /\ HcpIdle
    /\ FnIdle
    /\ RaceIdle
    /\ CtorIdle
    /\ MainIdle
    /\ VerifyIdle
    /\ NormIdle
    /\ StepsIdle
    /\ CleanupIdle
    /\ NamesIdle
    /\ mf_pc = "write"
    /\ mf_variant \in {"pipeline", "hcp"}
    /\ mf_process_list \in ProcessLists
    /\ input_text \in {Written("pipeline", l) : l \in ProcessLists}
    /\ input_list = << >>
    /\ mf_rewritten = FALSE
    /\ mf_transformed = FALSE

\* with open(self.input_text, 'w') as f: for subject in process_list: f.write(...)
WriteManifest ==
    /\ mf_pc = "write"
    /\ input_text' = Written(mf_variant, mf_process_list)
    /\ mf_pc' = "read"
    /\ UNCHANGED <<mf_variant, mf_process_list, input_list, mf_rewritten, mf_transformed,
                   outsideManifest>>

\* another run writes its manifest to the same file
OtherRunWrites ==
    /\ mf_pc = "read"
    /\ ~mf_rewritten
    /\ \E other \in ProcessLists :
          /\ other # mf_process_list
          /\ input_text' = Written("pipeline", other)
    /\ mf_rewritten' = TRUE
    /\ UNCHANGED <<mf_pc, mf_variant, mf_process_list, input_list, mf_transformed,
                   outsideManifest>>

\* with open(self.input_text, 'r') as f: input_list = [line.rstrip() for line in f]
ReadManifest ==
    /\ mf_pc = "read"
    /\ input_list' = ReadBack(input_text)
    /\ mf_pc' = "check"
    /\ UNCHANGED <<mf_variant, mf_process_list, input_text, mf_rewritten, mf_transformed,
                   outsideManifest>>

\* if sorted(input_list) == sorted(process_list): ... else: raise ValueError(...)
CheckManifest ==
    /\ mf_pc = "check"
    /\ mf_pc' = IF Matches(mf_variant, input_list, mf_process_list)
                THEN "checked"
                ELSE "ValueError"
    /\ UNCHANGED <<mf_variant, mf_process_list, input_text, input_list, mf_rewritten,
                   mf_transformed, outsideManifest>>

\* run_pipeline of src/pipeline, line 585: _run_cnn_masking after
\* _create_input_text has returned
RunTransform ==
    /\ mf_pc = "checked"
    /\ mf_variant = "pipeline"
    /\ mf_transformed' = TRUE
    /\ mf_pc' = "transformed"
    /\ UNCHANGED <<mf_variant, mf_process_list, input_text, input_list, mf_rewritten,
                   outsideManifest>>

NextManifest ==
    \/ WriteManifest
    \/ OtherRunWrites
    \/ ReadManifest
    \/ CheckManifest
    \/ RunTransform

SpecManifest == InitManifest /\ [][NextManifest]_vars

\* ----------------------------------- __init__: the case list and the backlog
\* _get_caselist and _get_subjects (__init__, lines 194-197). A line of the case
\* list file and a subject name are sequences of symbols: the letters of a
\* subject, the appendage, '#' and the blank.

\* the lines a case list file is made of: a subject, a subject with leading
\* blank and the appendage, a comment, a blank line
RawLines == {<<"a">>, <<" ", "b", appendage>>, <<"#", "a">>, <<" ">>}

RECURSIVE Lstrip(_)
Lstrip(line) ==
    IF Len(line) > 0 /\ line[1] \in {" ", NL} THEN Lstrip(Tail(line)) ELSE line

\* line.strip()
Strip(line) == Lstrip(Rstrip(line))

\* if line and not line.startswith('#')
IsCase(line) == Len(line) > 0 /\ line[1] # "#"

\* the loop of _get_caselist: the stripped lines that are neither empty nor comments
RECURSIVE Filtered(_)
Filtered(file) ==
    IF Len(file) = 0 THEN << >>
    ELSE IF IsCase(Strip(file[1]))
         THEN <<Strip(file[1])>> \o Filtered(Tail(file))
         ELSE Filtered(Tail(file))

\* lst[lo:hi]
PySlice(lst, lo, hi) == SubSeq(lst, PyBound(lo, Len(lst)) + 1, PyBound(hi, Len(lst)))

\* the window of _get_caselist taken as caselist[start_index:end_index]
Window_ZeroBased(lst, start, end) ==
    PySlice(lst, start, IF end = << >> THEN Len(lst) ELSE end[1])

\* _get_caselist, lines 279-281: caselist[start_index - 1:end_index], where
\* end_index = None stands for len(caselist)
Window(lst, start, end) ==
    PySlice(lst, start - 1, IF end = << >> THEN Len(lst) ELSE end[1])

\* re.search(self.appendage, subject)
HasAppendage(subject) == \E i \in 1..Len(subject) : subject[i] = appendage

\* _get_subjects, lines 295-296
WithAppendage(subject) ==
    IF HasAppendage(subject) THEN subject ELSE subject \o <<appendage>>

\* what `aws s3 ls <path>` comes to for the remote root of a subject. Given
\* the s3:// URI the listing is of that root. _get_subjects gives it
\* str(subject_path), '/<bucket>/<key>' without the scheme: the command line
\* either still reads bucket and key from it (ls_bare = "key") or finds no
\* bucket in it and lists the buckets of the account (ls_bare = "buckets").
LsSubject(subject) ==
    IF remote_root[subject] = "failed" THEN [returncode |-> 255, output |-> ""]
    ELSE IF ls_bare = "buckets" THEN [returncode |-> 0, output |-> "buckets"]
    ELSE IF remote_root[subject] = "present" THEN [returncode |-> 0, output |-> "PRE"]
    ELSE [returncode |-> 1, output |-> ""]

\* does_exist, on what the command came to
does_exist(process) ==
    IF process.returncode # 0 THEN FALSE ELSE process.output # ""

\* the run logs __init__ may find: none, or one with the line of a subject that
\* an earlier run processed
Logs == {<< >>, <<[message |-> "Successfully processed", subject |-> <<"a", appendage>>]>>}

\* the loop of _get_subjects reading the run logs as a skip-list: a subject with
\* a line in one of them is left out
RECURSIVE Existing_SkipLogged(_)
Existing_SkipLogged(cl) ==
    IF Len(cl) = 0 THEN << >>
    ELSE IF /\ does_exist(LsSubject(WithAppendage(cl[1])))
            /\ \A l \in Range(log_file) \cup Range(remote_log) :
                   l.subject # WithAppendage(cl[1])
         THEN <<WithAppendage(cl[1])>> \o Existing_SkipLogged(Tail(cl))
         ELSE Existing_SkipLogged(Tail(cl))

\* the loop of _get_subjects
RECURSIVE Existing(_)
Existing(cl) ==
    IF Len(cl) = 0 THEN << >>
    ELSE IF does_exist(LsSubject(WithAppendage(cl[1])))
         THEN <<WithAppendage(cl[1])>> \o Existing(Tail(cl))
         ELSE Existing(Tail(cl))

\* everything that is no part of __init__
outsideCtor == <<pipelineVars, dry_run, hcpVars, fnVars, raceVars, mfVars,
                 mainVars, verifyVars, normVars,
                stepsVars, cleanupVars, nameVars>>

\* __init__ has set the fields: any case list file, any window, any state of
\* the remote roots, any local and remote run log
InitCtor ==
    /\ PipelineIdle
    /\ log_file \in Logs
    /\ remote_log \in Logs
    /\ dry_run = FALSE
    /\ HcpIdle
    /\ FnIdle
    /\ RaceIdle
    /\ MfIdle
    /\ MainIdle
    /\ VerifyIdle
    /\ NormIdle
    /\ StepsIdle
    /\ CleanupIdle
    /\ NamesIdle
    /\ ctor_pc = "caselist"
    /\ caselist_file \in SeqsUpTo(RawLines, MaxLines)
    /\ start_index \in 0..MaxIdx
    /\ end_index \in {<< >>} \cup {<<e>> : e \in 0..MaxIdx}
    /\ caselist = << >>
    /\ subjects = << >>
    /\ remote_root \in [NormalSubjects -> {"present", "absent", "failed"}]
    /\ ls_bare \in {"key", "buckets"}

\* self.caselist = self._get_caselist(self.start_index, self.end_index)
GetCaselist ==
    /\ ctor_pc = "caselist"
    /\ caselist' = Window(Filtered(caselist_file), start_index, end_index)
    /\ ctor_pc' = "subjects"
    /\ UNCHANGED <<caselist_file, start_index, end_index, subjects, remote_root, ls_bare,
                   outsideCtor>>

\* self.subjects = self._get_subjects(); self.subjects_to_process = self.subjects
GetSubjects ==
    /\ ctor_pc = "subjects"
    /\ subjects' = Existing(caselist)
    /\ ctor_pc' = "done"
    /\ UNCHANGED <<caselist_file, start_index, end_index, caselist, remote_root, ls_bare,
                   outsideCtor>>

NextCtor ==
    \/ GetCaselist
    \/ GetSubjects

SpecCtor == InitCtor /\ [][NextCtor]_vars

\* ------------------------------------------- __main__: options and fields
\* __main__ (lines 674-725) up to the overrides of __init__ (lines 140-182). A
\* Python value is a record of its type and its text.
PyNone == [type |-> "NoneType", value |-> "None"]
PyBool(b) == [type |-> "bool", value |-> IF b THEN "True" ELSE "False"]
\* int(text)
PyInt(text) == [type |-> "int", value |-> text]

\* bool(v), as `if not dry_run` and `if args.run` take it
Truthy(v) == v \notin {PyNone, PyBool(FALSE), Str(""), PyInt("0")}

\* the tunables followed: the dry-run switch, the three integers, and one of the
\* options of type str
Tunables == {"dry_run", "start_index", "end_index", "batch_size", "appendage"}

\* an option that is absent, or given with one of the argument texts
Optional(texts) == {<< >>} \cup {<<t>> : t \in texts}

\* the command lines: -dr and -r are switches, the others take an argument
CommandLines ==
    [dr : BOOLEAN, r : BOOLEAN, si : Optional({"2"}), ei : Optional({"None", "2"}),
     b : Optional({"2"}), ap : Optional({"_V2_MR"})]

\* the configuration files: every key set, dry_run to either word, multiprocessing
\* to either word or to nothing
Configs ==
    [dry_run : {"True", "False"}, start_index : {"1"}, end_index : {"3"},
     batch_size : {"1"}, appendage : {appendage},
     multiprocessing : {"True", "False", ""}]

\* everything that is no part of __main__
outsideMain == <<pipelineVars, dry_run, hcpVars, fnVars, raceVars, mfVars, ctorVars,
                 verifyVars, normVars,
                stepsVars, cleanupVars, nameVars>>

InitMain ==
    /\ PipelineOff
    /\ dry_run = FALSE
    /\ HcpIdle
    /\ FnIdle
    /\ RaceIdle
    /\ MfIdle
    /\ CtorIdle
    /\ VerifyIdle
    /\ NormIdle
    /\ StepsIdle
    /\ CleanupIdle
    /\ NamesIdle
    /\ main_pc = "start"
    /\ argv \in CommandLines
    /\ config \in Configs
    /\ args = << >>
    /\ fields = << >>

\* type=int
TypeInt(option) == IF option = << >> THEN PyNone ELSE PyInt(option[1])

\* type=lambda x: None if x == 'None' else int(x)
TypeEndIndex(option) ==
    IF option = << >> THEN PyNone
    ELSE IF option[1] = "None" THEN PyNone ELSE PyInt(option[1])

\* type=str
TypeStr(option) == IF option = << >> THEN PyNone ELSE Str(option[1])

\* parser.parse_args(): an option that is absent has its default, None; a
\* store_true switch that is absent is False
ParseArgs ==
    /\ main_pc = "start"
    /\ args' = [dry_run |-> PyBool(argv.dr),
                run |-> PyBool(argv.r),
                start_index |-> TypeInt(argv.si),
                end_index |-> TypeEndIndex(argv.ei),
                batch_size |-> TypeInt(argv.b),
                appendage |-> TypeStr(argv.ap)]
    /\ main_pc' = "parsed"
    /\ UNCHANGED <<argv, config, fields, outsideMain>>

\* if args.run: args.dry_run = False
RunSwitch ==
    /\ main_pc = "parsed"
    /\ args' = IF Truthy(args.run) THEN [args EXCEPT !.dry_run = PyBool(FALSE)] ELSE args
    /\ main_pc' = "constructing"
    /\ UNCHANGED <<argv, config, fields, outsideMain>>

\* _set_class_fields_from_config: the three integers are converted, dry_run,
\* appendage and multiprocessing are the strings of the file
SetClassFieldsFromConfig ==
    /\ main_pc = "constructing"
    /\ fields' = [dry_run |-> Str(config.dry_run),
                  start_index |-> PyInt(config.start_index),
                  end_index |-> PyInt(config.end_index),
                  batch_size |-> PyInt(config.batch_size),
                  appendage |-> Str(config.appendage),
                  multiprocessing |-> Str(config.multiprocessing)]
    /\ main_pc' = "configured"
    /\ UNCHANGED <<argv, config, args, outsideMain>>

\* the overrides of __init__: if <argument> is not None: self.<field> = <argument>;
\* multiprocessing has no argument
Override ==
    /\ main_pc = "configured"
    /\ fields' = [k \in DOMAIN fields |->
                     IF k \in Tunables /\ args[k] # PyNone THEN args[k] ELSE fields[k]]
    /\ main_pc' = "done"
    /\ UNCHANGED <<argv, config, args, outsideMain>>

NextMain ==
    \/ ParseArgs
    \/ RunSwitch
    \/ SetClassFieldsFromConfig
    \/ Override

SpecMain == InitMain /\ [][NextMain]_vars

\* --------------------------------------------- _verify_subject_data_in_s3
\* One call of _verify_subject_data_in_s3 (lines 472-497), query by query.

\* file_list: the five expected files, in the order of the list
file_list == <<"bval", "bvec", "nii", "mask", "bse">>

\* what `aws s3 ls <uri of the file>` comes to
LsFile(file) ==
    IF file \in verify_failing THEN [returncode |-> 255, output |-> ""]
    ELSE IF file \in verify_remote THEN [returncode |-> 0, output |-> file]
    ELSE [returncode |-> 1, output |-> ""]

\* everything that is no part of the call
outsideVerify == <<pipelineVars, dry_run, hcpVars, fnVars, raceVars, mfVars, ctorVars,
                   mainVars, normVars,
                stepsVars, cleanupVars, nameVars>>

\* the call is entered with any of the files at the remote output location, and
\* with the listing of any of them failing
InitVerify ==
    /\ PipelineOff
    /\ dry_run = FALSE
    /\ HcpIdle
    /\ FnIdle
    /\ RaceIdle
    /\ MfIdle
    /\ CtorIdle
    /\ MainIdle
    /\ NormIdle
    /\ StepsIdle
    /\ CleanupIdle
    /\ NamesIdle
    /\ verify_pc = "loop"
    /\ verify_remote \in SUBSET allowed_files
    /\ verify_failing \in SUBSET allowed_files
    /\ verify_queried = << >>
    /\ verify_result = << >>

\* one pass of `for file in file_list`: if not does_exist(...): return False
VerifyFile ==
    /\ verify_pc = "loop"
    /\ Len(verify_queried) < Len(file_list)
    /\ LET file == file_list[Len(verify_queried) + 1]
       IN  /\ verify_queried' = Append(verify_queried, file)
           /\ IF does_exist(LsFile(file))
              THEN UNCHANGED <<verify_pc, verify_result>>
              ELSE /\ verify_result' = <<FALSE>>
                   /\ verify_pc' = "returned"
    /\ UNCHANGED <<verify_remote, verify_failing, outsideVerify>>

\* return True, after the loop
VerifyReturnsTrue ==
    /\ verify_pc = "loop"
    /\ Len(verify_queried) = Len(file_list)
    /\ verify_result' = <<TRUE>>
    /\ verify_pc' = "returned"
    /\ UNCHANGED <<verify_remote, verify_failing, verify_queried, outsideVerify>>

NextVerify ==
    \/ VerifyFile
    \/ VerifyReturnsTrue

SpecVerify == InitVerify /\ [][NextVerify]_vars

\* ------------------------------ the suffix normalization of _get_subjects
\* src/pipeline, lines 295-296: if not re.search(self.appendage, subject):
\* subject = subject + self.appendage. src/hcp, lines 236-237: the same with the
\* pattern r'_V\d_MR' and the suffix '_V1_MR'. A token and an appendage are
\* sequences of symbols; re.search reads the appendage as a pattern, in which
\* '$' stands for the end of the text and '\d' for a digit.
Digits == {"1"}
TokenSymbols == {"_V", "_MR", "$"} \cup Digits
Tokens == SeqsUpTo(TokenSymbols, MaxTok)

\* '_V1_MR'
UsualAppendage == <<"_V", "1", "_MR">>
Appendages == (SeqsUpTo(TokenSymbols, MaxApp) \ {<< >>}) \cup {UsualAppendage}

\* re.match of the pattern at position i of the text
RECURSIVE MatchAt(_, _, _)
MatchAt(pattern, text, i) ==
    IF Len(pattern) = 0 THEN TRUE
    ELSE IF pattern[1] = "$"
         THEN i = Len(text) + 1 /\ MatchAt(Tail(pattern), text, i)
    ELSE IF i > Len(text) THEN FALSE
    ELSE IF pattern[1] = "\\d"
         THEN text[i] \in Digits /\ MatchAt(Tail(pattern), text, i + 1)
    ELSE text[i] = pattern[1] /\ MatchAt(Tail(pattern), text, i + 1)

\* re.search(pattern, text): a match at any position
Search(pattern, text) == \E i \in 1..(Len(text) + 1) : MatchAt(pattern, text, i)

\* the pattern re.search is given, and the suffix that is appended
Pattern(variant, app) == IF variant = "hcp" THEN <<"_V", "\\d", "_MR">> ELSE app
Suffix(variant, app) == IF variant = "hcp" THEN UsualAppendage ELSE app

\* the two lines of _get_subjects
Normalize(variant, app, token) ==
    IF Search(Pattern(variant, app), token) THEN token
    ELSE token \o Suffix(variant, app)

\* everything that is no part of the normalization
outsideNormalize == <<pipelineVars, dry_run, hcpVars, fnVars, raceVars, mfVars, ctorVars,
                      mainVars, verifyVars,
                stepsVars, cleanupVars, nameVars>>

\* any token, and any appendage in the configuration of src/pipeline
InitNormalize ==
    /\ PipelineOff
    /\ dry_run = FALSE
    /\ HcpIdle
    /\ FnIdle
    /\ RaceIdle
    /\ MfIdle
    /\ CtorIdle
    /\ MainIdle
    /\ VerifyIdle
    /\ StepsIdle
    /\ CleanupIdle
    /\ NamesIdle
    /\ norm_pc = "token"
    /\ norm_variant \in {"pipeline", "hcp"}
    /\ norm_appendage \in IF norm_variant = "hcp" THEN {UsualAppendage} ELSE Appendages
    /\ norm_token \in Tokens
    /\ norm_once = << >>
    /\ norm_twice = << >>

NormalizeOnce ==
    /\ norm_pc = "token"
    /\ norm_once' = Normalize(norm_variant, norm_appendage, norm_token)
    /\ norm_pc' = "once"
    /\ UNCHANGED <<norm_variant, norm_appendage, norm_token, norm_twice, outsideNormalize>>

NormalizeTwice ==
    /\ norm_pc = "once"
    /\ norm_twice' = Normalize(norm_variant, norm_appendage, norm_once)
    /\ norm_pc' = "twice"
    /\ UNCHANGED <<norm_variant, norm_appendage, norm_token, norm_once, outsideNormalize>>

NextNormalize ==
    \/ NormalizeOnce
    \/ NormalizeTwice

SpecNormalize == InitNormalize /\ [][NextNormalize]_vars

\* ---------------------------------------------------------- run_pipeline.py
\* __main__ from the clamp of -nproc (lines 69-71) and run_pipeline (lines
\* 26-31): four subprocess.run calls, each of which waits for the child and
\* returns its exit status without looking at it.

\* the scripts, in the order of the calls
Steps == <<"extractb0.py", "antsRegistration.py", "maskprocessing.py", "postprocessing.py">>

\* abs(n)
Abs(n) == IF n < 0 THEN 0 - n ELSE n

\* the -nproc argument of the k-th call, << >> for a call without one
Nproc(k, n) ==
    IF k = 1 THEN <<Abs(n - 2)>>
    ELSE IF k = 2 THEN <<n>>
    ELSE << >>

\* everything that is no part of run_pipeline.py
outsideSteps == <<pipelineVars, dry_run, hcpVars, fnVars, raceVars, mfVars, ctorVars,
                  mainVars, verifyVars, normVars, cleanupVars, nameVars>>

\* parse_args has returned: any -nproc from 1 on, on a machine of any size
InitSteps ==
    /\ PipelineOff
    /\ dry_run = FALSE
    /\ HcpIdle
    /\ FnIdle
    /\ RaceIdle
    /\ MfIdle
    /\ CtorIdle
    /\ MainIdle
    /\ VerifyIdle
    /\ NormIdle
    /\ CleanupIdle
    /\ NamesIdle
    /\ steps_pc = "parsed"
    /\ cores \in 1..MaxCores
    /\ cr \in 1..MaxCr
    /\ calls = << >>

\* if args.cr > os.cpu_count(): args.cr = os.cpu_count()
Clamp ==
    /\ steps_pc = "parsed"
    /\ cr' = IF cr > cores THEN cores ELSE cr
    /\ steps_pc' = "ready"
    /\ UNCHANGED <<cores, calls, outsideSteps>>

\* subprocess.run([...]) starts the next script
StartStep ==
    /\ steps_pc = "ready"
    /\ Len(calls) < Len(Steps)
    /\ calls' = Append(calls, [script |-> Steps[Len(calls) + 1],
                               nproc |-> Nproc(Len(calls) + 1, cr),
                               exit |-> << >>])
    /\ steps_pc' = "waiting"
    /\ UNCHANGED <<cores, cr, outsideSteps>>

\* the child has ended with a non-zero exit status and the call raises, as
\* subprocess.run(..., check=True) does
EndStep_Checked ==
    /\ steps_pc = "waiting"
    /\ \E exit \in {0, 1} :
          /\ calls' = [calls EXCEPT ![Len(calls)].exit = <<exit>>]
          /\ steps_pc' = IF exit # 0 THEN "CalledProcessError" ELSE "ready"
    /\ UNCHANGED <<cores, cr, outsideSteps>>

\* the child has ended and subprocess.run returns; the exit status is dropped
EndStep ==
    /\ steps_pc = "waiting"
    /\ \E exit \in {0, 1} :
          calls' = [calls EXCEPT ![Len(calls)].exit = <<exit>>]
    /\ steps_pc' = "ready"
    /\ UNCHANGED <<cores, cr, outsideSteps>>

\* run_pipeline returns after the fourth call
StepsDone ==
    /\ steps_pc = "ready"
    /\ Len(calls) = Len(Steps)
    /\ steps_pc' = "done"
    /\ UNCHANGED <<cores, cr, calls, outsideSteps>>

NextSteps ==
    \/ Clamp
    \/ StartStep
    \/ EndStep
    \/ StepsDone

SpecSteps == InitSteps /\ [][NextSteps]_vars

\* ------------------------------- _cleanup_additional_files, file by file
\* One call of _cleanup_additional_files (lines 639-671) over the subject
\* directories of the processed directory. A file name is the subject it is
\* named after ("" when it names none) and its ending, and two files are one
\* name when both agree.
ScratchName == [of |-> "", ending |-> "process_id.txt"]
OutputName(s) == [of |-> s, ending |-> "_EdEp.nii.gz"]
OwnExtra(s) == [of |-> s, ending |-> "_EdEp_mask.txt"]
SharedExtra == [of |-> "", ending |-> "log.txt"]

\* the files an output directory of subject s can hold after the transform
NamesIn(s) == {ScratchName, OutputName(s), OwnExtra(s), SharedExtra}

\* str(file.as_uri()).endswith(tuple(self.allowed_files)), for these names
EndsWithAllowed(n) == n.ending = "_EdEp.nii.gz"

\* everything that is no part of the call
outsideCleanup == <<pipelineVars, dry_run, hcpVars, fnVars, raceVars, mfVars, ctorVars,
                    mainVars, verifyVars, normVars, stepsVars, nameVars>>

\* the call begins with any files in the output directories and with
\* additional_files_loc empty
InitCleanup ==
    /\ PipelineOff
    /\ dry_run = FALSE
    /\ HcpIdle
    /\ FnIdle
    /\ RaceIdle
    /\ MfIdle
    /\ CtorIdle
    /\ MainIdle
    /\ VerifyIdle
    /\ NormIdle
    /\ StepsIdle
    /\ NamesIdle
    /\ cl_pc = "start"
    /\ cl_processed \in [Subjects -> SUBSET UNION {NamesIn(s) : s \in Subjects}]
    /\ \A s \in Subjects : cl_processed[s] \subseteq NamesIn(s)
    /\ cl_additional = {}
    /\ cl_unvisited = {}
    /\ cl_dir = << >>
    /\ cl_left = {}
    /\ cl_before = cl_processed
    /\ cl_deleted = {}
    /\ cl_moved = {}

\* additional_files_loc is made when it is missing; processed_dir.iterdir()
MakeAdditionalFilesLoc ==
    /\ cl_pc = "start"
    /\ cl_unvisited' = Subjects
    /\ cl_pc' = "dirs"
    /\ UNCHANGED <<cl_processed, cl_additional, cl_dir, cl_left, cl_before, cl_deleted,
                   cl_moved, outsideCleanup>>

\* for subject_dir in processed_dir.iterdir(): the order is the file system's
NextSubjectDir ==
    /\ cl_pc = "dirs"
    /\ \E s \in cl_unvisited :
          /\ cl_unvisited' = cl_unvisited \ {s}
          /\ cl_dir' = <<s>>
          /\ cl_left' = cl_processed[s]
    /\ cl_pc' = "files"
    /\ UNCHANGED <<cl_processed, cl_additional, cl_before, cl_deleted, cl_moved,
                   outsideCleanup>>

\* shutil.move(file, directory) with a file of that name in the directory
\* already: shutil.Error("Destination path ... already exists")
MoveRaises(n) == n \in cl_additional

\* the body of the inner loop for one file: process_id.txt is unlinked, a file
\* with an allowed ending is left, any other is moved to additional_files_loc
CleanFile ==
    /\ cl_pc = "files"
    /\ \E n \in cl_left :
          /\ cl_left' = cl_left \ {n}
          /\ IF n = ScratchName
             THEN /\ cl_processed' = [cl_processed EXCEPT ![cl_dir[1]] = @ \ {n}]
                  /\ cl_deleted' = cl_deleted \cup {<<cl_dir[1], n>>}
                  /\ UNCHANGED <<cl_additional, cl_moved, cl_pc>>
             ELSE IF EndsWithAllowed(n)
             THEN UNCHANGED <<cl_processed, cl_additional, cl_deleted, cl_moved, cl_pc>>
             ELSE IF MoveRaises(n)
             THEN /\ cl_pc' = "raised"
                  /\ UNCHANGED <<cl_processed, cl_additional, cl_deleted, cl_moved>>
             ELSE /\ cl_processed' = [cl_processed EXCEPT ![cl_dir[1]] = @ \ {n}]
                  /\ cl_additional' = cl_additional \cup {n}
                  /\ cl_moved' = cl_moved \cup {<<cl_dir[1], n>>}
                  /\ UNCHANGED <<cl_deleted, cl_pc>>
    /\ UNCHANGED <<cl_unvisited, cl_dir, cl_before, outsideCleanup>>

\* the inner loop has ended
SubjectDirDone ==
    /\ cl_pc = "files"
    /\ cl_left = {}
    /\ cl_pc' = "dirs"
    /\ cl_dir' = << >>
    /\ UNCHANGED <<cl_processed, cl_additional, cl_unvisited, cl_left, cl_before,
                   cl_deleted, cl_moved, outsideCleanup>>

\* the outer loop has ended: the call returns
CleanupReturns ==
    /\ cl_pc = "dirs"
    /\ cl_unvisited = {}
    /\ cl_pc' = "done"
    /\ UNCHANGED <<cl_processed, cl_additional, cl_unvisited, cl_dir, cl_left, cl_before,
                   cl_deleted, cl_moved, outsideCleanup>>

NextCleanup ==
    \/ MakeAdditionalFilesLoc
    \/ NextSubjectDir
    \/ CleanFile
    \/ SubjectDirDone
    \/ CleanupReturns

SpecCleanup == InitCleanup /\ [][NextCleanup]_vars

\* ---------------------------------- the names of a subject's five files
\* The name of a file as the verification builds it (lines 484-491), the test
\* cleanup makes on it (lines 669-671, with allowed_files of lines 184-189) and
\* the include filter of the push (lines 413-416). A text is a sequence of
\* symbols: a character, or an ending taken whole.
MaxSub == 2

\* subject.split(self.appendage)[0] of two subjects
SubjectNames == {<<"a">>, <<"a", "1">>}

\* the characters of self.file_substring: "+" is one that a URI has to quote
SubstringSymbols == {"_", "E", "+"}

\* the endings of the five files, after the file substring
Endings ==
    {<<".bval">>, <<".bvec">>, <<".nii.gz">>, <<"_bse-multi_BrainMask", ".nii.gz">>,
     <<"_bse", ".nii.gz">>}

\* self.allowed_files
AllowedFiles(substring) == {substring \o e : e \in Endings}

\* file_list of _verify_subject_data_in_s3
FileList(subject_name, substring) == {subject_name \o substring \o e : e \in Endings}

\* urllib's quoting of one symbol: letters, digits and _ . - ~ stay, any other
\* character becomes % and its code
Quote(c) == IF c = "+" THEN <<"%", "2", "B">> ELSE <<c>>

RECURSIVE QuoteAll(_)
QuoteAll(text) == IF text = << >> THEN << >> ELSE Quote(Head(text)) \o QuoteAll(Tail(text))

\* str(file.as_uri()) of the file of that name in a subject's output directory
AsUri(name) == <<"file://", "/">> \o QuoteAll(name)

\* text.endswith(tuple(suffixes))
EndsWith(text, suffixes) ==
    \E suffix \in suffixes :
        /\ Len(suffix) <= Len(text)
        /\ SubSeq(text, Len(text) - Len(suffix) + 1, Len(text)) = suffix

\* --include "*<file_substring>*" for a substring of these characters, none of
\* which is special in a pattern: the name has the substring in it
Includes(substring, name) ==
    \E i \in 1..(Len(name) + 1) :
        /\ i + Len(substring) - 1 <= Len(name)
        /\ SubSeq(name, i, i + Len(substring) - 1) = substring

\* the file followed
RequiredFile == nm_subject_name \o nm_file_substring \o nm_ending

\* everything that is no part of the comparison
outsideNames == <<pipelineVars, dry_run, hcpVars, fnVars, raceVars, mfVars, ctorVars,
                  mainVars, verifyVars, normVars, stepsVars, cleanupVars>>

InitNames ==
    /\ PipelineOff
    /\ dry_run = FALSE
    /\ HcpIdle
    /\ FnIdle
    /\ RaceIdle
    /\ MfIdle
    /\ CtorIdle
    /\ MainIdle
    /\ VerifyIdle
    /\ NormIdle
    /\ StepsIdle
    /\ CleanupIdle
    /\ nm_pc = "start"
    /\ nm_subject_name \in SubjectNames
    /\ nm_file_substring \in SeqsUpTo(SubstringSymbols, MaxSub)
    /\ nm_ending \in Endings
    /\ nm_uri = << >>
    /\ nm_kept = << >>
    /\ nm_included = << >>

\* file.as_uri()
TakeUri ==
    /\ nm_pc = "start"
    /\ nm_uri' = AsUri(RequiredFile)
    /\ nm_pc' = "uri"
    /\ UNCHANGED <<nm_subject_name, nm_file_substring, nm_ending, nm_kept, nm_included,
                   outsideNames>>

\* if not str(file.as_uri()).endswith(tuple(self.allowed_files)): shutil.move(...)
KeepOrMove ==
    /\ nm_pc = "uri"
    /\ nm_kept' = <<EndsWith(nm_uri, AllowedFiles(nm_file_substring))>>
    /\ nm_pc' = "cleaned"
    /\ UNCHANGED <<nm_subject_name, nm_file_substring, nm_ending, nm_uri, nm_included,
                   outsideNames>>

\* aws s3 mv ... --recursive --exclude "*" --include "*<file_substring>*"
FilterOfPush ==
    /\ nm_pc = "cleaned"
    /\ nm_included' = <<Includes(nm_file_substring, RequiredFile)>>
    /\ nm_pc' = "done"
    /\ UNCHANGED <<nm_subject_name, nm_file_substring, nm_ending, nm_uri, nm_kept,
                   outsideNames>>

NextNames ==
    \/ TakeUri
    \/ KeepOrMove
    \/ FilterOfPush

SpecNames == InitNames /\ [][NextNames]_vars

\* ================================================================ properties

RECURSIVE Concat(_)
Concat(ss) == IF Len(ss) = 0 THEN << >> ELSE ss[1] \o Concat(Tail(ss))

\* how many subjects the batches before the k-th took
RECURSIVE Taken(_)
Taken(k) == IF k <= 1 THEN 0 ELSE Taken(k - 1) + Len(batches[k - 1])

IsPrefix(a, b) == Len(a) <= Len(b) /\ a = SubSeq(b, 1, Len(a))

RECURSIVE Select(_, _)
Select(s, S) ==
    IF Len(s) = 0 THEN << >>
    ELSE IF s[1] \in S THEN <<s[1]>> \o Select(Tail(s), S)
    ELSE Select(Tail(s), S)

\* ---- C1
\* C1: the batches popped partition the backlog. At every point of the run the
\* k-th batch is the slice of the initial backlog that starts where the earlier
\* batches ended, the batches popped so far followed by the remaining backlog
\* are the initial backlog, entry for entry and in case-list order, and when the
\* run is Done the batches alone are the initial backlog (every entry of the
\* backlog is in exactly one batch). This holds for every batch size, positive
\* or not.
C1_BatchesPartitionBacklog ==
    /\ \A k \in 1..Len(batches) :
          batches[k] = SubSeq(initial_backlog, Taken(k) + 1, Taken(k) + Len(batches[k]))
    /\ Concat(batches) \o subjects_to_process = initial_backlog
    /\ pc = "Done" => Concat(batches) = initial_backlog

\* a finished run of three subjects in two batches, the second one shorter
C1_Witness ==
    /\ pc = "Done"
    /\ Len(initial_backlog) = 3
    /\ Len(batches) = 2
    /\ Len(batches[1]) = 2
    /\ Len(batches[2]) = 1

\* ---- C2
\* C2: every iteration of the run_pipeline loop strictly shrinks the backlog,
\* whatever integer the batch size is.
C2_EachIterationShrinks ==
    [][(pc = "Idle" /\ pc' = "Popped") =>
          Len(subjects_to_process') < Len(subjects_to_process)]_vars

\* ---- C3
\* C3: with the configured batch size b, the k-th batch has min(b, remaining
\* backlog length) subjects: no batch exceeds b, and a batch that is not the last
\* one has exactly b.
C3_BatchSizeIsMin ==
    \A k \in 1..Len(batches) :
        Len(batches[k]) = Min(cfg_batch_size, Len(initial_backlog) - Taken(k))

\* ---- C4
\* C4: when a run over distinct subjects is Done, the transform was invoked once
\* per batch and the log at log_loc holds exactly one outcome line for each
\* subject of the backlog.
C4_OneOutcomePerSubject ==
    (pc = "Done" /\ Distinct(initial_backlog)) =>
        /\ transform_calls = Len(batches)
        /\ Len(log_file) = Len(initial_backlog)
        /\ \A s \in Range(initial_backlog) :
              Cardinality({i \in 1..Len(log_file) : log_file[i].subject = s}) = 1

\* ---- C5
\* the stages of a batch as the claim lists them; the push of the additional
\* files belongs to the push stage, and the reconciliation of the log with the
\* remote log comes between the verification and the delete
ClaimedStages == <<"Staging", "Manifest", "Transform", "ToProcessed", "Cleanup",
                   "Push", "Verify", "Reconcile", "Delete">>

\* C5: within every batch the stages occur in the fixed order, none skipped or
\* repeated: the stages a batch has entered are a prefix of the claimed order, and
\* a batch that reaches the delete has gone through all of them.
C5_StagesInClaimedOrder ==
    LET entered == Select(stages, Range(ClaimedStages))
    IN  /\ IsPrefix(entered, ClaimedStages)
        /\ pc = "Delete" => entered = ClaimedStages

\* ---- C6
\* C6: when the transform exits non-zero for a batch, every outcome recorded for
\* that batch is a failed one.
C6_FailedTransformFailsBatch ==
    transform_exit = 1 =>
        \A i \in 1..Len(recorded) : recorded[i].message = "Failed to process"

\* ---- C7
\* C7: a subject whose staging staged nothing does not abort its batch: in no
\* state has the run been aborted while one subject of the current batch is
\* unstaged and another one was staged.
C7_StagingFailureDoesNotAbort ==
    (unstaged # {} /\ Range(batch) \ unstaged # {}) => pc # "Aborted"

\* ---- C8
\* every subject of the batch has its outcome written, in batch order
AllLogged ==
    /\ Len(recorded) = Len(batch)
    /\ \A i \in 1..Len(batch) : recorded[i].subject = batch[i]

\* something is in the local working tree of the batch
LocalTree ==
    \/ processed_exists
    \/ \E s \in Subjects : local[s] # {} \/ processed[s] # {}

C9_RemoteLogHasOutcomes ==
    pc = "Delete" => \A i \in 1..Len(outcomes) : outcomes[i] \in Range(remote_log)

\* ---- C10
\* C10: the log _copy_logs_to_s3 uploads holds every line of the remote log as
\* pulled and every line of the local log.
C10_MergeLosesNoLine ==
    hcp_pc = "done" =>
        /\ Lines(hcp_local0) \subseteq Lines(hcp_local)
        /\ hcp_pulled # << >> => Lines(hcp_pulled[1]) \subseteq Lines(hcp_local)

\* ---- C13
\* C13: batches never overlap in local working storage. When the staging of a
\* batch is about to begin, neither the group directory nor the processed
\* directory holds a file of a subject of an earlier batch of the run.
C13_NoOverlapInLocalStorage ==
    pc = "Popped" =>
        \A k \in 1..(Len(batches) - 1) : \A s \in Range(batches[k]) :
            local[s] = {} /\ processed[s] = {}

\* the second batch is about to be staged after the first one went through the
\* transform, the verification and the delete
C13_Witness ==
    /\ pc = "Popped"
    /\ Len(batches) = 2
    /\ transform_calls = 1
    /\ Len(outcomes) = Len(batches[1])
    /\ Len(batches[1]) >= 1

\* ---- C14
\* C14: at every transform invocation the manifest lists the primary input of
\* exactly the subjects of the current batch whose pull staged their inputs: no
\* subject outside the batch, and no staged subject of the batch left out.
C14_ManifestIsStagedBatch ==
    pc = "Transform" =>
        /\ manifest \subseteq Range(batch)
        /\ manifest = staged

\* ---- C17
\* C17: a subject whose pull or push exited non-zero in the batch is not
\* recorded as successfully processed for that batch.
C17_FailedTransferNotSuccess ==
    \A i \in 1..Len(recorded) :
        recorded[i].subject \in transfer_failed =>
            recorded[i].message = "Failed to process"

\* ---- C11
\* C11: the merge is idempotent and commutative on line sets: for all texts A
\* and B, merge(A, merge(A, B)) has the lines of merge(A, B), and merge(A, B) has
\* the lines of merge(B, A).
C11_MergeIdempotentCommutative ==
    fn_pc = "done" =>
        /\ Lines(fn_aab) = Lines(fn_ab)
        /\ Lines(fn_ab) = Lines(fn_ba)

\* ---- C12
\* C12, the single-writer half: when one machine alone writes the group's log,
\* every line that was ever uploaded is in the remote log.
C12_SingleWriterLosesNoLine ==
    (race_writers = {"w1"} /\ race_remote # << >>) =>
        race_pushed \subseteq Lines(race_remote[1])

\* ---- C15
\* C15: the manifest round trip. For every list the scan returns, when the file
\* is read back as it was written the lines are the scanned paths and the
\* integrity check passes; and whenever the lines are not the scanned paths the
\* check raises.
C15_ManifestRoundTrip ==
    mf_pc \in {"checked", "transformed", "ValueError"} =>
        /\ ~mf_rewritten =>
              /\ Range(input_list) = Range(mf_process_list)
              /\ mf_pc # "ValueError"
        /\ Range(input_list) # Range(mf_process_list) => mf_pc = "ValueError"

\* ---- C16
\* C16: when the lines read back are not the scanned list, the transform is not
\* invoked: the transform has only ever run on a manifest that matched, and the
\* ValueError is the end (no step follows it).
C16_MismatchNeverTransformed ==
    /\ [](mf_transformed =>
              SortedEqual(input_list, mf_process_list))
    /\ [](mf_pc = "ValueError" => ~mf_transformed)
    /\ [][mf_pc # "ValueError"]_vars

\* the manifest of src/pipeline was rewritten before the read, the lines read
\* back differ from the scanned list, and the run has ended in the ValueError
C16_Witness ==
    /\ mf_variant = "pipeline"
    /\ mf_pc = "ValueError"
    /\ mf_rewritten
    /\ ~SortedEqual(input_list, mf_process_list)
    /\ ~mf_transformed

\* ---- C18
\* C18: a listing that failed is propagated as an error and is not taken for
\* 'absent': __init__ does not run to its end, with the subject left out of the
\* backlog, when the listing of a subject of the case list failed.
C18_FailedQueryNotAbsent ==
    ctor_pc = "done" =>
        \A i \in 1..Len(caselist) :
            remote_root[WithAppendage(caselist[i])] # "failed"

\* ---- C19
\* the entries of a list of subject names whose remote root exists
RECURSIVE Present(_)
Present(names) ==
    IF Len(names) = 0 THEN << >>
    ELSE IF remote_root[names[1]] = "present"
         THEN <<names[1]>> \o Present(Tail(names))
         ELSE Present(Tail(names))

\* C19: when every listing went through, a subject of the case list whose remote
\* root does not exist is not in the backlog, and the backlog is the other
\* subjects of the window, in case-list order.
C19_AbsentSubjectExcluded ==
    (ctor_pc = "done" /\ \A s \in NormalSubjects : remote_root[s] # "failed") =>
        subjects = Present([i \in 1..Len(caselist) |-> WithAppendage(caselist[i])])

\* ---- C20
\* the window [start_index, end_index] is valid
ValidWindow ==
    /\ start_index >= 1
    /\ end_index # << >> => start_index <= end_index[1]

\* the last line the window selects
LastLine ==
    IF end_index = << >> THEN Len(Filtered(caselist_file))
    ELSE Min(end_index[1], Len(Filtered(caselist_file)))

\* C20, as stated: for every valid window the case list has
\* min(end, totalLines) - start + 1 entries.
C20_WindowLengthAsStated ==
    (ctor_pc # "caselist" /\ ValidWindow) =>
        Len(caselist) = LastLine - start_index + 1

\* C20, amended: for every valid window the case list is the filtered lines from
\* the start-th to the min(end, totalLines)-th, a contiguous run of
\* max(0, min(end, totalLines) - start + 1) entries; end = None selects through
\* the last line.
C20_WindowIsContiguousRun ==
    (ctor_pc # "caselist" /\ ValidWindow) =>
        /\ caselist = SubSeq(Filtered(caselist_file), start_index, LastLine)
        /\ Len(caselist) = Max(0, LastLine - start_index + 1)

\* a window that starts at the second filtered line of a file with a comment in
\* it and runs through the last line
C20_Witness ==
    /\ ctor_pc # "caselist"
    /\ start_index = 2
    /\ end_index = << >>
    /\ Len(caselist_file) = 3
    /\ caselist_file[1] = <<"#", "a">>
    /\ Len(Filtered(caselist_file)) = 2
    /\ Len(caselist) = 1

\* ---- C21
\* C21: a bad index window (start < 1, or start > end when both are given) makes
\* the subject listing fail with a range error: __init__ does not get past
\* _get_caselist with such a window, so no case list, empty or wrapped around,
\* comes out of it and no remote listing is made.
C21_BadWindowIsRangeError ==
    ~ValidWindow => ctor_pc \in {"caselist", "RangeError"}

\* ---- C22
\* the steps that issue a transfer command: the pulls, the pushes, and the push
\* of the additional files
TransferStages == {"Staging", "Push", "PushAdditional"}

\* C22: with dry-run set every transfer command carries the dry-run marker, so
\* no transfer changes remote or local data: in a dry run no step changes the
\* remote outputs, the remote additional files or the remote log, and no step of
\* a transfer stage changes the local tree.
C22_DryRunTransfersChangeNothing ==
    [][dry_run =>
          /\ remote_out' = remote_out
          /\ remote_additional' = remote_additional
          /\ remote_log' = remote_log
          /\ pc \in TransferStages =>
                /\ local' = local
                /\ processed' = processed
                /\ additional' = additional]_vars

\* a dry run has issued the pushes of a batch, of a subject with kept outputs in
\* its processed directory and with additional files aside, and `aws s3 ls`
\* answered True for the local paths
C22_Witness ==
    /\ dry_run
    /\ ls_local
    /\ pc = "Verify"
    /\ additional # {}
    /\ \E i \in 1..Len(batch) : allowed_files \subseteq processed[batch[i]]

\* ---- C23
\* C23: with dry-run set a run rehearses completely: with a batch size of at
\* least 1 it goes through the manifest, the transform, the reclaiming, the
\* verification and the logging of every batch and no exception ends it, though
\* nothing was staged.
C23_DryRunDoesNotAbort ==
    (dry_run /\ cfg_batch_size >= 1) => pc # "Aborted"

\* ---- C24
\* C24: dry-run is the default mode. A command line with neither -dr nor -r
\* gives a run in dry-run mode, and a run is live only when -r was given.
C24_DryRunIsDefault ==
    main_pc = "done" =>
        /\ (~argv.dr /\ ~argv.r) => Truthy(fields.dry_run)
        /\ ~Truthy(fields.dry_run) => argv.r

\* ---- C25
\* the command line has the option of a tunable (for dry_run: -dr or -r)
Passed(k) ==
    CASE k = "dry_run" -> argv.dr \/ argv.r
      [] k = "start_index" -> argv.si # << >>
      [] k = "end_index" -> argv.ei # << >>
      [] k = "batch_size" -> argv.b # << >>
      [] k = "appendage" -> argv.ap # << >>

\* the value the command line gives a tunable it has the option of: -r is
\* False, -dr alone is True, -ei None is None
Given(k) ==
    CASE k = "dry_run" -> PyBool(~argv.r)
      [] k = "start_index" -> PyInt(argv.si[1])
      [] k = "end_index" -> IF argv.ei[1] = "None" THEN PyNone ELSE PyInt(argv.ei[1])
      [] k = "batch_size" -> PyInt(argv.b[1])
      [] k = "appendage" -> Str(argv.ap[1])

\* the value the configuration file gives a tunable, as
\* _set_class_fields_from_config reads it
Configured(k) ==
    CASE k = "dry_run" -> Str(config.dry_run)
      [] k = "start_index" -> PyInt(config.start_index)
      [] k = "end_index" -> PyInt(config.end_index)
      [] k = "batch_size" -> PyInt(config.batch_size)
      [] k = "appendage" -> Str(config.appendage)

\* C25: the effective value of every tunable is the command-line value when the
\* option was supplied and the configuration value otherwise: an option that
\* was not passed leaves the configured value, that of dry_run included.
C25_CommandLineOverConfig ==
    main_pc = "done" =>
        \A k \in Tunables :
            fields[k] = IF Passed(k) THEN Given(k) ELSE Configured(k)

\* ---- C26
\* the files of file_list up to the first one that does not exist remotely
UpToFirstMissing ==
    LET missing == {i \in 1..Len(file_list) : file_list[i] \notin verify_remote}
    IN  SubSeq(file_list, 1, IF missing = {} THEN Len(file_list) ELSE SetMin(missing))

\* C26: _verify_subject_data_in_s3 returns True exactly when all five expected
\* files exist at the remote output location; it queries them in list order and
\* stops at the first missing file, with no query after it.
C26_VerifyIsAllFiveExist ==
    verify_pc = "returned" =>
        /\ verify_result = <<allowed_files \subseteq verify_remote>>
        /\ verify_queried = UpToFirstMissing

\* ---- C27
\* C27: in the distributing stage of a live run a push is issued for every
\* subject of the batch whose processed output directory exists locally, so
\* that, when its transfer succeeds, the subject's kept outputs are at the
\* remote output location after the stage and none of them is left in the
\* processed directory.
C27_PushIssuedForProcessedSubjects ==
    (~dry_run /\ pc = "PushAdditional") =>
        \A i \in 1..Len(batch) :
            batch[i] \notin transfer_failed =>
                /\ \A f \in processed[batch[i]] : ~Kept(f)
                /\ transform_exit = 0 => \A f \in allowed_files : f \in remote_out[batch[i]]

\* ---- C28
\* C28: no generated artifact is silently destroyed. Every file the batch
\* produced that is neither kept nor process_id.txt was moved aside by
\* _cleanup_additional_files; after _delete_data each of them is at the remote
\* AdditionalFiles location or in the local additional-files directory,
\* wherever that directory is configured to be.
C28_NoArtifactDestroyed ==
    [][(pc = "Delete" /\ pc' = "Idle") =>
          additional \subseteq (additional' \cup remote_additional')]_vars

\* ---- C29
\* the text has the symbols of part in it, one after the other
Carries(part, text) ==
    \E i \in 1..(Len(text) + 1) :
        /\ i + Len(part) - 1 <= Len(text)
        /\ SubSeq(text, i, i + Len(part) - 1) = part

\* C29: the suffix normalization is idempotent, for every token and every
\* configured appendage: normalizing the normalized token gives the normalized
\* token, and a token that carries the appendage is left as it is.
C29_NormalizeIdempotent ==
    /\ norm_pc = "twice" => norm_twice = norm_once
    /\ (norm_pc # "token" /\ Carries(Suffix(norm_variant, norm_appendage), norm_token)) =>
          norm_once = norm_token

\* ---- C30
\* the listing of a subject's remote root answers True
Listed(s) ==
    /\ remote_root[s] # "failed"
    /\ ls_bare = "buckets" \/ remote_root[s] = "present"

\* the entries of a list of subject names whose listing answers True
RECURSIVE Answered(_)
Answered(names) ==
    IF Len(names) = 0 THEN << >>
    ELSE IF Listed(names[1])
         THEN <<names[1]>> \o Answered(Tail(names))
         ELSE Answered(Tail(names))

\* C30: the run log is no skip-list. The backlog __init__ computes is a function
\* of the case list file, the index window and the answers of the remote
\* listings alone: whatever the local and the remote run log hold, it is the
\* subjects of the window whose listing answers True, in case-list order.
C30_BacklogIgnoresLog ==
    ctor_pc = "done" =>
        /\ caselist = Window(Filtered(caselist_file), start_index, end_index)
        /\ subjects = Answered([i \in 1..Len(caselist) |-> WithAppendage(caselist[i])])

\* __init__ is over, the local and the remote run log have the line of a
\* subject that was processed, and the subject is in the backlog again
C30_Witness ==
    /\ ctor_pc = "done"
    /\ log_file # << >>
    /\ remote_log # << >>
    /\ \E i \in 1..Len(subjects) : subjects[i] = log_file[1].subject

C38_ProcessCountInRange ==
    \A k \in 1..Len(calls) :
        calls[k].nproc # << >> =>
            /\ calls[k].nproc[1] >= 1
            /\ calls[k].nproc[1] <= cores

\* a fan-out has run to its end in the current batch: the stage after it is entered
Joined(f) == (IF f = "Staging" THEN "Manifest" ELSE "PushAdditional") \in Range(stages)

\* C32: in each fan-out (staging, push) the operation runs at most once for an
\* entry of the batch at any time, not at all before the fan-out is entered, and
\* exactly once for every entry by the time the following stage has begun,
\* whatever transfers have failed; the following stage is entered with no entry
\* left to a worker.
C32_FanoutOncePerEntryThenJoin ==
    \A f \in Fanouts :
        /\ DOMAIN applied[f] = Positions
        /\ \A i \in Positions :
              /\ applied[f][i] <= 1
              /\ f \notin Range(stages) => applied[f][i] = 0
              /\ Joined(f) => applied[f][i] = 1
        /\ pc \in {"Manifest", "PushAdditional"} => todo = {}

\* a pool has staged a batch of two subjects: the copy of the first failed, the
\* second was staged all the same, and the manifest stage has begun
C32_Witness ==
    /\ multiprocessing
    /\ pc = "Manifest"
    /\ Len(batch) = 2
    /\ batch[1] # batch[2]
    /\ batch[1] \in transfer_failed
    /\ batch[2] \in staged
    /\ \A i \in Positions : applied["Staging"][i] = 1

\* C33: when the configuration sets multiprocessing to a disabling value, the text
\* False or nothing, `if self.multiprocessing` is false and the fan-outs take the
\* for loop.
C33_FalseTextDisablesPool ==
    (main_pc = "done" /\ config.multiprocessing \in {"False", ""})
        => ~Truthy(fields.multiprocessing)

\* C34: no two workers of a pool that run at the same time write the same
\* destination, local when staging and remote when pushing, whatever the batch.
C34_WorkersWriteDistinctDestinations ==
    \A i, j \in Positions :
        Concurrent(i, j) => Destination(pc, batch[i]) # Destination(pc, batch[j])

\* the files of the output directories when the call began
FilesBefore == {p \in Subjects \X UNION {NamesIn(s) : s \in Subjects} : p[2] \in cl_before[p[1]]}

\* C35: _cleanup_additional_files never stops short, and when it has returned
\* every file its directories held has met exactly one fate: process_id.txt was
\* deleted, a file with an allowed ending is in place, any other file is in
\* additional_files_loc and no longer in its directory.
C35_CleanupPartitionsAndCompletes ==
    /\ cl_pc # "raised"
    /\ cl_pc = "done" =>
          \A p \in FilesBefore :
              /\ p[2] = ScratchName =>
                    (p \in cl_deleted /\ p \notin cl_moved /\ p[2] \notin cl_processed[p[1]])
              /\ (p[2] # ScratchName /\ EndsWithAllowed(p[2])) =>
                    (p \notin cl_deleted /\ p \notin cl_moved /\ p[2] \in cl_processed[p[1]])
              /\ (p[2] # ScratchName /\ ~EndsWithAllowed(p[2])) =>
                    (p \notin cl_deleted /\ p \in cl_moved /\ p[2] \in cl_additional
                        /\ p[2] \notin cl_processed[p[1]])

\* C36: after every _delete_data the local log holds every outcome line written
\* in the batches of the run so far, wherever the log file is configured to be.
C36_DeleteKeepsLoggedOutcomes ==
    (pc \in {"Idle", "Done"} /\ batches # << >>)
        => \A i \in 1..Len(outcomes) : outcomes[i] \in Range(log_file)

\* C37: every file the verification requires of a subject is left in place by
\* _cleanup_additional_files and is matched by the include filter of the push.
C37_RequiredFilesKeptAndIncluded ==
    nm_pc = "done" =>
        /\ RequiredFile \in FileList(nm_subject_name, nm_file_substring)
        /\ nm_kept = <<TRUE>>
        /\ nm_included = <<TRUE>>

====
